---- MODULE Spec2Model ----
(***************************************************************************)
(* FeedContentDatabase (components/feed/core/feed_content_database.cc):   *)
(* the mutation pipeline that applies a ContentMutation, one operation at *)
(* a time, to a leveldb_proto store, and the filtered read path over the  *)
(* same store.                                                             *)
(*                                                                         *)
(* The object keeps one field, database_status_.  Everything else lives   *)
(* in the callbacks bound to the store calls in flight (the remaining     *)
(* ContentMutation and the caller's callback travel inside the bound      *)
(* OnOperationCommitted) and in the tasks posted to the owner sequence.   *)
(* Every bound completion holds a weak pointer: after the destructor it   *)
(* is dropped.  A posted caller callback holds none and still runs.       *)
(***************************************************************************)
EXTENDS Integers, Sequences, FiniteSets, TLC

\* ------------------------------------------------------------------ bounds
\* Longest ContentMutation a caller submits.
MaxLen == 2

\* The CommitContentMutation calls of one behaviour, numbered in call order,
\* and its load calls (LoadContent, LoadContentByPrefix, LoadAllContentKeys).
BatchIds == {1, 2}
LoadIds == {1}

\* ------------------------------------------------------------ keys, values
\* A key is a string, modelled as a sequence of characters.
KeyA == <<"a">>
KeyAB == <<"a", "b">>
KeyB == <<"b">>
KeyUpperA == <<"A">>
KeyABC == <<"a", "b", "c">>
NoKey == <<>>
NoData == ""

Record(k, v) == [key |-> k, content_data |-> v]

\* -------------------------------------------------------------- operations
Operation(t, k, v, p) == [type |-> t, key |-> k, value |-> v, prefix |-> p]
Upsert(k, v) == Operation("CONTENT_UPSERT", k, v, NoKey)
Delete(k) == Operation("CONTENT_DELETE", k, NoData, NoKey)
DeleteByPrefix(p) == Operation("CONTENT_DELETE_BY_PREFIX", NoKey, NoData, p)
DeleteAll == Operation("CONTENT_DELETE_ALL", NoKey, NoData, NoKey)
\* A type value outside the four the switch of PerformNextOperation names.
Unsupported == Operation("CONTENT_UNSUPPORTED", NoKey, NoData, NoKey)

\* The operations callers put into mutations.
OpPool == {Upsert(KeyA, "1"), DeleteAll}
\* The same with an operation of an unrecognized kind.
OpPoolU == {Upsert(KeyA, "1"), Unsupported}

Mutations(pool, n) == UNION {[1..k -> pool] : k \in 0..n}

\* Store contents a behaviour starts from: a fresh store.
InitialContents == {{}}

\* ----------------------------------------------------------------- filters
NoFilter == [by |-> "none", key_set |-> {}, key_prefix |-> NoKey]

DatabaseKeyFilter(key_set, key) == key \in key_set

\* The ASCII lower-case form of a character of the keys of the model.
ToLowerASCII(ch) == IF ch = "A" THEN "a" ELSE ch

\* DatabasePrefixFilter comparing without regard to case.
DatabasePrefixFilter_IgnoresCase(key_prefix, key) ==
    /\ Len(key_prefix) <= Len(key)
    /\ \A i \in 1..Len(key_prefix) :
           ToLowerASCII(key[i]) = ToLowerASCII(key_prefix[i])

\* DatabasePrefixFilter: base::StartsWith(key, key_prefix, SENSITIVE).
DatabasePrefixFilter(key_prefix, key) ==
    /\ Len(key_prefix) <= Len(key)
    /\ SubSeq(key, 1, Len(key_prefix)) = key_prefix

KeyFilter(key_set) == [by |-> "key", key_set |-> key_set, key_prefix |-> NoKey]
PrefixFilter(p) == [by |-> "prefix", key_set |-> {}, key_prefix |-> p]

\* Running a bound filter on a key.
RunFilter(filter, key) ==
    IF filter.by = "key" THEN DatabaseKeyFilter(filter.key_set, key)
    ELSE DatabasePrefixFilter(filter.key_prefix, key)

\* ------------------------------------------------------------------- state
VARIABLES
    database_status_,  \* InitStatus of the object
    initPending,       \* the store's Init has not completed yet
    initDelivered,     \* history: the statuses delivered to OnDatabaseInitialized
    alive,             \* the object exists (its weak pointers are valid)
    contents,          \* the store's records
    calls,             \* store calls in flight, each with its bound completion
    posted,            \* caller callbacks posted to the owner sequence
    \* history, per CommitContentMutation call
    nCommits,          \* number of CommitContentMutation calls so far
    batch,             \* the mutation as submitted
    snap,              \* the store's contents at the latest call
    alone,             \* no other batch was outstanding at the latest call
    sent,              \* the operations dispatched to the store, in order
    entered,           \* the sizes of the mutations PerformNextOperation was entered with
    outcome,           \* the store's answers delivered to OnOperationCommitted
    results,           \* the values the caller's callback was run with
    OperationCommitTime, \* the samples of the OperationCommitTime histogram
    \* history, per load call
    nLoads,            \* number of load calls so far
    loadReq,           \* what was asked
    loadAnswer,        \* the store's answers delivered to the load handlers
    loadResults,       \* the values the caller's callback was run with
    dropped,           \* requests whose bound completion was dropped
    \* IdleActionWarningObserver and what it acts on
    observing,         \* the observer is registered with the PowerManagerClient
    warning_dialog_,   \* the dialog the observer points to, or NULL
    on_battery_power_, \* the power source as of the latest PowerChanged
    prefs,             \* the idle action configured for each power source
    demo_mode,         \* DemoSession::IsDeviceInDemoMode()
    views,             \* the IdleActionWarningDialogViews: open or not, deadline
    handled            \* history: the latest event and what its handler did

storeVars == <<contents, calls, posted>>
commitHist == <<nCommits, batch, snap, alone, sent, entered, outcome, results, OperationCommitTime>>
loadHist == <<nLoads, loadReq, loadAnswer, loadResults>>
observerVars == <<observing, warning_dialog_, on_battery_power_, prefs, demo_mode, views, handled>>
feedVars == <<database_status_, initPending, initDelivered, alive, storeVars, commitHist, loadHist, dropped>>
vars == <<feedVars, observerVars>>

CommitReq(b) == [api |-> "Commit", id |-> b]
LoadReqId(l) == [api |-> "Load", id |-> l]

\* Calls in flight for a request.
CallsOf(r) == {c \in calls : c.req = r}
PostedOf(r) == {t \in posted : t.req = r}

\* A committed batch whose callback has not run.
Outstanding(b) == b <= nCommits /\ results[b] = <<>>

NoLoad == [api |-> "none", keys |-> <<>>, prefix |-> NoKey]

\* ------------------------------------------- IdleActionWarningObserver: data
NULL == "NULL"
DialogIds == {"view1", "view2"}

\* PowerPolicyController::Action.
ACTION_SUSPEND == "ACTION_SUSPEND"
ACTION_STOP_SESSION == "ACTION_STOP_SESSION"
ACTION_SHUT_DOWN == "ACTION_SHUT_DOWN"
ACTION_DO_NOTHING == "ACTION_DO_NOTHING"
Actions == {ACTION_SUSPEND, ACTION_STOP_SESSION, ACTION_SHUT_DOWN, ACTION_DO_NOTHING}

\* A view that is not open.
NoView == [open |-> FALSE, idle_action_time |-> 0]

\* What a handler did: the event with its arguments, the dialogs the handler
\* created, updated and closed, the events
\* it passed to ReportMetricsForDemoMode and the samples that reached the
\* DemoMode.IdleLogoutWarningEvent histogram.
Handled(event, created, updated, closed, reported, recorded) ==
    [event |-> event, created |-> created, updated |-> updated, closed |-> closed,
     reported |-> reported, recorded |-> recorded]
NothingHandled == Handled(<<"none">>, {}, {}, {}, <<>>, <<>>)

\* No IdleActionWarningObserver exists.
NoObserver ==
    /\ observing = FALSE
    /\ warning_dialog_ = NULL
    /\ on_battery_power_ = FALSE
    /\ prefs = [kPowerBatteryIdleAction |-> ACTION_SUSPEND,
                kPowerAcIdleAction |-> ACTION_SUSPEND]
    /\ demo_mode = FALSE
    /\ views = [d \in DialogIds |-> NoView]
    /\ handled = NothingHandled

Init ==
    /\ database_status_ = "kNotInitialized"
    /\ initPending = TRUE
    /\ initDelivered = <<>>
    /\ alive = TRUE
    /\ contents \in InitialContents
    /\ calls = {}
    /\ posted = {}
    /\ nCommits = 0
    /\ batch = [b \in BatchIds |-> <<>>]
    /\ snap = {}
    /\ alone = TRUE
    /\ sent = [b \in BatchIds |-> <<>>]
    /\ entered = [b \in BatchIds |-> <<>>]
    /\ outcome = [b \in BatchIds |-> <<>>]
    /\ results = [b \in BatchIds |-> <<>>]
    /\ OperationCommitTime = [b \in BatchIds |-> <<>>]
    /\ nLoads = 0
    /\ loadReq = [l \in LoadIds |-> NoLoad]
    /\ loadAnswer = [l \in LoadIds |-> <<>>]
    /\ loadResults = [l \in LoadIds |-> <<>>]
    /\ dropped = {}
    /\ NoObserver

\* ------------------------------------------------------------- store calls
\* What a store call carries besides its bound completion.
StoreCall(kind, save, remove, filter) ==
    [kind |-> kind, save |-> save, remove |-> remove, filter |-> filter]

\* UpdateEntries with one entry to save and nothing to delete.
UpsertContent(operation) ==
    StoreCall("UpdateEntries", {Record(operation.key, operation.value)}, {}, NoFilter)

\* DeleteContent leaving the key out of the keys to delete.
DeleteContent_NoKey(operation) ==
    StoreCall("UpdateEntries", {}, {}, NoFilter)

\* DeleteContent removing by a filter bound to the key as a prefix: every key
\* that starts with the key goes.
DeleteContent_ByPrefix(operation) ==
    StoreCall("UpdateEntriesWithRemoveFilter", {}, {}, PrefixFilter(operation.key))

\* UpdateEntries with nothing to save and one key to delete.
DeleteContent(operation) ==
    StoreCall("UpdateEntries", {}, {operation.key}, NoFilter)

\* DeleteContentByPrefix binding the key filter to the prefix: only the key
\* equal to the prefix is removed.
DeleteContentByPrefix_ExactKey(operation) ==
    StoreCall("UpdateEntriesWithRemoveFilter", {}, {}, KeyFilter({operation.prefix}))

\* UpdateEntriesWithRemoveFilter with the prefix filter bound to the prefix.
DeleteContentByPrefix(operation) ==
    StoreCall("UpdateEntriesWithRemoveFilter", {}, {}, PrefixFilter(operation.prefix))

\* DeleteAllContent binding the key filter to an empty key set: the remove
\* filter accepts no key.
DeleteAllContent_EmptyKeySet(operation) ==
    StoreCall("UpdateEntriesWithRemoveFilter", {}, {}, KeyFilter({}))

\* UpdateEntriesWithRemoveFilter with the prefix filter bound to "".
DeleteAllContent(operation) ==
    StoreCall("UpdateEntriesWithRemoveFilter", {}, {}, PrefixFilter(NoKey))

KnownTypes ==
    {"CONTENT_DELETE", "CONTENT_DELETE_BY_PREFIX", "CONTENT_UPSERT", "CONTENT_DELETE_ALL"}

\* The switch of PerformNextOperation, for a type it names.
Dispatch(operation) ==
    CASE operation.type = "CONTENT_DELETE" -> DeleteContent(operation)
      [] operation.type = "CONTENT_DELETE_BY_PREFIX" -> DeleteContentByPrefix(operation)
      [] operation.type = "CONTENT_UPSERT" -> UpsertContent(operation)
      [] operation.type = "CONTENT_DELETE_ALL" -> DeleteAllContent(operation)

\* A call in flight: the call, the request it belongs to, its position in the
\* batch, the completion handler and the ContentMutation moved into it.  A
\* load call also keeps its place in the order the store received the calls:
\* the number of update calls of each batch that arrived before it.
InFlight(r, idx, call, handler, content_mutation) ==
    [req |-> r, idx |-> idx, call |-> call, handler |-> handler,
     content_mutation |-> content_mutation,
     arrived |-> IF handler = "OnOperationCommitted" THEN <<>>
                 ELSE [b \in BatchIds |-> Len(sent[b])]]

\* ---------------------------------------------------------------- the store
\* The store's contents after it ran an update call successfully: the entries
\* to save are written, then the keys to delete (or the keys the remove filter
\* accepts) are removed.
StoreUpdate(call, db) ==
    LET saved == {r \in db : \A s \in call.save : s.key # r.key} \cup call.save
    IN  IF call.kind = "UpdateEntries"
        THEN {r \in saved : r.key \notin call.remove}
        ELSE {r \in saved : ~RunFilter(call.filter, r.key)}

\* The store's contents after it ran a call in flight: an update that
\* succeeded is applied; a failed update and a load leave the records as they
\* were.
StoreRuns(c, success, db) ==
    IF success /\ c.handler = "OnOperationCommitted"
    THEN StoreUpdate(c.call, db) ELSE db

\* The keys of the model in the order the store iterates them.
KeyOrder == <<NoKey, KeyUpperA, KeyA, KeyAB, KeyABC, KeyB>>

\* The keys a successful LoadKeys hands back: a vector with every key of the
\* store, once.
StoreLoadKeys(db) == SelectSeq(KeyOrder, LAMBDA k : \E r \in db : r.key = k)

\* The entries a successful LoadEntriesWithFilter hands back: a vector with
\* every record whose key the filter accepts, once.
StoreLoadEntries(call, db) ==
    LET keys == SelectSeq(StoreLoadKeys(db), LAMBDA k : RunFilter(call.filter, k))
    IN  [i \in 1..Len(keys) |-> CHOOSE r \in db : r.key = keys[i]]

\* What the store may hand back with a load: the answer when it succeeded,
\* and an empty vector or the answer when it failed.
StoreAnswers(success, answer) == IF success THEN {answer} ELSE {<<>>, answer}

\* ------------------------------------------------------------ the pipeline
\* PerformNextOperation taking the operation from the back of the mutation.
PerformNextOperation_TakesLast(b, content_mutation, cs, ps) ==
    /\ entered' = [entered EXCEPT ![b] = Append(@, Len(content_mutation))]
    /\ LET operation == content_mutation[Len(content_mutation)]
           rest == SubSeq(content_mutation, 1, Len(content_mutation) - 1)
       IN  IF operation.type \in KnownTypes
           THEN /\ calls' = cs \cup {InFlight(CommitReq(b), Len(sent[b]) + 1,
                                              Dispatch(operation),
                                              "OnOperationCommitted", rest)}
                /\ posted' = ps
                /\ sent' = [sent EXCEPT ![b] = Append(@, operation)]
           ELSE /\ calls' = cs
                /\ posted' = ps \cup {[req |-> CommitReq(b), success |-> FALSE]}
                /\ sent' = sent

\* PerformNextOperation whose default branch does nothing.
PerformNextOperation_SilentDefault(b, content_mutation, cs, ps) ==
    /\ entered' = [entered EXCEPT ![b] = Append(@, Len(content_mutation))]
    /\ LET operation == Head(content_mutation)
           rest == Tail(content_mutation)
       IN  IF operation.type \in KnownTypes
           THEN /\ calls' = cs \cup {InFlight(CommitReq(b), Len(sent[b]) + 1,
                                              Dispatch(operation),
                                              "OnOperationCommitted", rest)}
                /\ posted' = ps
                /\ sent' = [sent EXCEPT ![b] = Append(@, operation)]
           ELSE /\ calls' = cs
                /\ posted' = ps
                /\ sent' = sent

\* PerformNextOperation dispatching the first operation and leaving it in the
\* mutation it binds to the completion.
PerformNextOperation_KeepsFront(b, content_mutation, cs, ps) ==
    /\ entered' = [entered EXCEPT ![b] = Append(@, Len(content_mutation))]
    /\ LET operation == Head(content_mutation)
       IN  IF operation.type \in KnownTypes
           THEN /\ calls' = cs \cup {InFlight(CommitReq(b), Len(sent[b]) + 1,
                                              Dispatch(operation),
                                              "OnOperationCommitted", content_mutation)}
                /\ posted' = ps
                /\ sent' = [sent EXCEPT ![b] = Append(@, operation)]
           ELSE /\ calls' = cs
                /\ posted' = ps \cup {[req |-> CommitReq(b), success |-> FALSE]}
                /\ sent' = sent

\* PerformNextOperation(content_mutation, callback) for batch b, with cs the
\* calls in flight and ps the posted tasks at the call.  Entered with an
\* empty mutation, DCHECK(!content_mutation->Empty()) fails: a build with
\* DCHECKs on stops there, and in any other TakeFristOperation takes the
\* front of an empty list, which is undefined.
PerformNextOperation(b, content_mutation, cs, ps) ==
    LET Switch(operation, rest) ==
            IF operation.type \in KnownTypes
            THEN /\ calls' = cs \cup {InFlight(CommitReq(b), Len(sent[b]) + 1,
                                               Dispatch(operation),
                                               "OnOperationCommitted", rest)}
                 /\ posted' = ps
                 /\ sent' = [sent EXCEPT ![b] = Append(@, operation)]
            ELSE /\ calls' = cs
                 /\ posted' = ps \cup {[req |-> CommitReq(b), success |-> FALSE]}
                 /\ sent' = sent
    IN  /\ entered' = [entered EXCEPT ![b] = Append(@, Len(content_mutation))]
        /\ IF content_mutation = <<>>
           THEN \/ calls' = cs /\ posted' = ps /\ sent' = sent
                \/ \E operation \in OpPoolU : Switch(operation, <<>>)
           ELSE Switch(Head(content_mutation), Tail(content_mutation))

\* CommitContentMutation rejecting a mutation while another is outstanding.
CommitContentMutation_RejectsSecond(content_mutation) ==
    /\ alive
    /\ nCommits < Cardinality(BatchIds)
    /\ LET b == nCommits + 1
       IN  /\ nCommits' = b
           /\ batch' = [batch EXCEPT ![b] = content_mutation]
           /\ snap' = contents
           /\ alone' = \A o \in BatchIds : ~Outstanding(o)
           /\ IF content_mutation = <<>>
              THEN /\ posted' = posted \cup {[req |-> CommitReq(b), success |-> TRUE]}
                   /\ UNCHANGED <<calls, sent, entered>>
              ELSE IF \E o \in BatchIds : Outstanding(o)
              THEN /\ posted' = posted \cup {[req |-> CommitReq(b), success |-> FALSE]}
                   /\ UNCHANGED <<calls, sent, entered>>
              ELSE PerformNextOperation(b, content_mutation, calls, posted)
    /\ UNCHANGED <<observerVars, database_status_, initPending, initDelivered, alive, contents, outcome, results,
                   OperationCommitTime,
                   loadHist, dropped>>

\* CommitContentMutation without the Empty() branch: an empty mutation goes to
\* the store as an update with nothing to save and nothing to delete.
CommitContentMutation_NoEmptyCheck(content_mutation) ==
    /\ alive
    /\ nCommits < Cardinality(BatchIds)
    /\ LET b == nCommits + 1
       IN  /\ nCommits' = b
           /\ batch' = [batch EXCEPT ![b] = content_mutation]
           /\ snap' = contents
           /\ alone' = \A o \in BatchIds : ~Outstanding(o)
           /\ IF content_mutation = <<>>
              THEN /\ calls' = calls \cup {InFlight(CommitReq(b), 1,
                                  StoreCall("UpdateEntries", {}, {}, NoFilter),
                                  "OnOperationCommitted", <<>>)}
                   /\ UNCHANGED <<posted, sent, entered>>
              ELSE PerformNextOperation(b, content_mutation, calls, posted)
    /\ UNCHANGED <<observerVars, database_status_, initPending, initDelivered, alive, contents, outcome, results,
                   OperationCommitTime,
                   loadHist, dropped>>

\* CommitContentMutation failing fast while the database is not initialized:
\* the callback is posted with false and nothing goes to the store.
CommitContentMutation_FailsFastWhenNotReady(content_mutation) ==
    /\ alive
    /\ nCommits < Cardinality(BatchIds)
    /\ LET b == nCommits + 1
       IN  /\ nCommits' = b
           /\ batch' = [batch EXCEPT ![b] = content_mutation]
           /\ snap' = contents
           /\ alone' = \A o \in BatchIds : ~Outstanding(o)
           /\ IF content_mutation = <<>>
              THEN /\ posted' = posted \cup {[req |-> CommitReq(b), success |-> TRUE]}
                   /\ UNCHANGED <<calls, sent, entered>>
              ELSE IF database_status_ # "kOK"
              THEN /\ posted' = posted \cup {[req |-> CommitReq(b), success |-> FALSE]}
                   /\ UNCHANGED <<calls, sent, entered>>
              ELSE PerformNextOperation(b, content_mutation, calls, posted)
    /\ UNCHANGED <<observerVars, database_status_, initPending, initDelivered, alive, contents, outcome, results,
                   OperationCommitTime,
                   loadHist, dropped>>

\* CommitContentMutation running the callback of an empty mutation itself,
\* before it returns.
CommitContentMutation_RunsEmptyInline(content_mutation) ==
    /\ alive
    /\ nCommits < Cardinality(BatchIds)
    /\ LET b == nCommits + 1
       IN  /\ nCommits' = b
           /\ batch' = [batch EXCEPT ![b] = content_mutation]
           /\ snap' = contents
           /\ alone' = \A o \in BatchIds : ~Outstanding(o)
           /\ IF content_mutation = <<>>
              THEN /\ results' = [results EXCEPT ![b] = Append(@, TRUE)]
                   /\ UNCHANGED <<calls, posted, sent, entered>>
              ELSE /\ PerformNextOperation(b, content_mutation, calls, posted)
                   /\ UNCHANGED results
    /\ UNCHANGED <<observerVars, database_status_, initPending, initDelivered, alive, contents, outcome,
                   OperationCommitTime, loadHist, dropped>>

CommitContentMutation(content_mutation) ==
    /\ alive
    /\ nCommits < Cardinality(BatchIds)
    /\ LET b == nCommits + 1
       IN  /\ nCommits' = b
           /\ batch' = [batch EXCEPT ![b] = content_mutation]
           /\ snap' = contents
           /\ alone' = \A o \in BatchIds : ~Outstanding(o)
           /\ IF content_mutation = <<>>
              THEN /\ posted' = posted \cup {[req |-> CommitReq(b), success |-> TRUE]}
                   /\ UNCHANGED <<calls, sent, entered>>
              ELSE PerformNextOperation(b, content_mutation, calls, posted)
    /\ UNCHANGED <<observerVars, database_status_, initPending, initDelivered, alive, contents, outcome, results,
                   OperationCommitTime,
                   loadHist, dropped>>

\* UMA_HISTOGRAM_TIMES("...OperationCommitTime", commit_time) for batch b: the
\* sample keeps what the handler held when it recorded it, the operations
\* left in the mutation and the number of times the callback had been run.
RecordCommitTime(b, content_mutation) ==
    OperationCommitTime' = [OperationCommitTime EXCEPT ![b] =
        Append(@, [left |-> content_mutation, callbacks |-> Len(results[b])])]

\* OnOperationCommitted going on with the next operation after a failure.
OnOperationCommitted_NoHalt(b, content_mutation, success, cs) ==
    IF content_mutation = <<>>
    THEN /\ RecordCommitTime(b, content_mutation)
         /\ results' = [results EXCEPT ![b] = Append(@, success)]
         /\ calls' = cs
         /\ UNCHANGED <<posted, sent, entered>>
    ELSE /\ PerformNextOperation(b, content_mutation, cs, posted)
         /\ UNCHANGED <<results, OperationCommitTime>>

\* OnOperationCommitted reporting success at the first successful completion.
OnOperationCommitted_EarlySuccess(b, content_mutation, success, cs) ==
    /\ IF success THEN RecordCommitTime(b, content_mutation)
       ELSE UNCHANGED OperationCommitTime
    /\ results' = [results EXCEPT ![b] = Append(@, success)]
    /\ calls' = cs
    /\ UNCHANGED <<posted, sent, entered>>

\* OnOperationCommitted without the return after the failure report: the
\* callback runs, and the handler goes on as after a success.
OnOperationCommitted_NoReturn(b, content_mutation, success, cs) ==
    IF content_mutation = <<>>
    THEN /\ OperationCommitTime' = [OperationCommitTime EXCEPT ![b] =
                Append(@, [left |-> content_mutation,
                           callbacks |-> IF success THEN Len(results[b])
                                         ELSE Len(results[b]) + 1])]
         /\ results' = [results EXCEPT ![b] =
                IF success THEN Append(@, success) ELSE @ \o <<success, success>>]
         /\ calls' = cs
         /\ UNCHANGED <<posted, sent, entered>>
    ELSE /\ PerformNextOperation(b, content_mutation, cs, posted)
         /\ results' = [results EXCEPT ![b] = IF success THEN @ ELSE Append(@, success)]
         /\ UNCHANGED OperationCommitTime

\* OnOperationCommitted returning after a success that leaves operations in
\* the mutation, without dispatching the next one.
OnOperationCommitted_Stalls(b, content_mutation, success, cs) ==
    IF ~success \/ content_mutation = <<>>
    THEN /\ IF success THEN RecordCommitTime(b, content_mutation)
            ELSE UNCHANGED OperationCommitTime
         /\ results' = [results EXCEPT ![b] = Append(@, success)]
         /\ calls' = cs
         /\ UNCHANGED <<posted, sent, entered>>
    ELSE /\ calls' = cs
         /\ UNCHANGED <<posted, sent, entered, results, OperationCommitTime>>

\* OnOperationCommitted dispatching the failed operation again.
OnOperationCommitted_Retries(b, content_mutation, success, cs) ==
    IF ~success
    THEN /\ PerformNextOperation(b, <<sent[b][Len(sent[b])]>> \o content_mutation,
                                 cs, posted)
         /\ UNCHANGED <<results, OperationCommitTime>>
    ELSE IF content_mutation = <<>>
    THEN /\ RecordCommitTime(b, content_mutation)
         /\ results' = [results EXCEPT ![b] = Append(@, success)]
         /\ calls' = cs
         /\ UNCHANGED <<posted, sent, entered>>
    ELSE /\ PerformNextOperation(b, content_mutation, cs, posted)
         /\ UNCHANGED <<results, OperationCommitTime>>

\* OnOperationCommitted taking the commit time at every successful
\* completion, before it looks at what is left of the mutation.
OnOperationCommitted_TimesEveryOperation(b, content_mutation, success, cs) ==
    IF ~success
    THEN /\ results' = [results EXCEPT ![b] = Append(@, success)]
         /\ calls' = cs
         /\ UNCHANGED <<posted, sent, entered, OperationCommitTime>>
    ELSE IF content_mutation = <<>>
    THEN /\ RecordCommitTime(b, content_mutation)
         /\ results' = [results EXCEPT ![b] = Append(@, success)]
         /\ calls' = cs
         /\ UNCHANGED <<posted, sent, entered>>
    ELSE /\ RecordCommitTime(b, content_mutation)
         /\ PerformNextOperation(b, content_mutation, cs, posted)
         /\ UNCHANGED results

\* OnOperationCommitted giving up, after a failure, the update calls of every
\* batch: the other batches' completions are never delivered.
OnOperationCommitted_HaltsEveryBatch(b, content_mutation, success, cs) ==
    IF ~success
    THEN /\ results' = [results EXCEPT ![b] = Append(@, success)]
         /\ calls' = {c \in cs : c.handler # "OnOperationCommitted"}
         /\ UNCHANGED <<posted, sent, entered, OperationCommitTime>>
    ELSE IF content_mutation = <<>>
    THEN /\ RecordCommitTime(b, content_mutation)
         /\ results' = [results EXCEPT ![b] = Append(@, success)]
         /\ calls' = cs
         /\ UNCHANGED <<posted, sent, entered>>
    ELSE /\ PerformNextOperation(b, content_mutation, cs, posted)
         /\ UNCHANGED <<results, OperationCommitTime>>

\* OnOperationCommitted going on to PerformNextOperation after every
\* success, without looking whether the mutation is empty.
OnOperationCommitted_SkipsEmptyCheck(b, content_mutation, success, cs) ==
    IF ~success
    THEN /\ results' = [results EXCEPT ![b] = Append(@, success)]
         /\ calls' = cs
         /\ UNCHANGED <<posted, sent, entered, OperationCommitTime>>
    ELSE /\ PerformNextOperation(b, content_mutation, cs, posted)
         /\ UNCHANGED <<results, OperationCommitTime>>

\* OnOperationCommitted(content_mutation, callback, success) for batch b,
\* with cs the calls still in flight.
OnOperationCommitted(b, content_mutation, success, cs) ==
    IF ~success
    THEN /\ results' = [results EXCEPT ![b] = Append(@, success)]
         /\ calls' = cs
         /\ UNCHANGED <<posted, sent, entered, OperationCommitTime>>
    ELSE IF content_mutation = <<>>
    THEN /\ RecordCommitTime(b, content_mutation)
         /\ results' = [results EXCEPT ![b] = Append(@, success)]
         /\ calls' = cs
         /\ UNCHANGED <<posted, sent, entered>>
    ELSE /\ PerformNextOperation(b, content_mutation, cs, posted)
         /\ UNCHANGED <<results, OperationCommitTime>>

\* The store completes an update call and the bound OnOperationCommitted runs.
UpdateCompletes(c, success) ==
    /\ alive
    /\ c \in calls
    /\ c.handler = "OnOperationCommitted"
    /\ contents' = StoreRuns(c, success, contents)
    /\ outcome' = [outcome EXCEPT ![c.req.id] = Append(@, success)]
    /\ OnOperationCommitted(c.req.id, c.content_mutation, success, calls \ {c})
    /\ UNCHANGED <<observerVars, database_status_, initPending, initDelivered, alive, nCommits, batch, snap,
                   alone, loadHist, dropped>>

\* A callback posted to the owner sequence runs.
RunPostedTask(t) ==
    /\ t \in posted
    /\ posted' = posted \ {t}
    /\ results' = [results EXCEPT ![t.req.id] = Append(@, t.success)]
    /\ UNCHANGED <<observerVars, database_status_, initPending, initDelivered, alive, contents, calls, nCommits,
                   batch, snap, alone, sent, entered, outcome, OperationCommitTime, loadHist,
                   dropped>>

\* OnDatabaseInitialized bound as a repeating callback: the store may deliver
\* the completion of Init again.
OnDatabaseInitialized_Repeats(status) ==
    /\ alive
    /\ initPending
    /\ initPending' = initPending
    /\ initDelivered' = Append(initDelivered, status)
    /\ database_status_' = status
    /\ UNCHANGED <<observerVars, alive, storeVars, commitHist, loadHist, dropped>>

\* The store's Init completes and the bound OnDatabaseInitialized runs.
OnDatabaseInitialized(status) ==
    /\ alive
    /\ initPending
    /\ initPending' = FALSE
    /\ initDelivered' = Append(initDelivered, status)
    /\ database_status_' = status
    /\ UNCHANGED <<observerVars, alive, storeVars, commitHist, loadHist, dropped>>

\* ---------------------------------------------------------------- the loads
\* The bookkeeping of a load call: its number and what was asked.
IssueLoad(api, keys, prefix, call, handler) ==
    /\ nLoads < Cardinality(LoadIds)
    /\ LET l == nLoads + 1
       IN  /\ nLoads' = l
           /\ loadReq' = [loadReq EXCEPT ![l] =
                  [api |-> api, keys |-> keys, prefix |-> prefix]]
           /\ calls' = calls \cup {InFlight(LoadReqId(l), 1, call, handler, <<>>)}
    /\ UNCHANGED <<observerVars, database_status_, initPending, initDelivered, alive, contents, posted, commitHist,
                   loadAnswer, loadResults, dropped>>

\* The set built from the vector of keys.
KeySetOf(keys) == {keys[i] : i \in 1..Len(keys)}

\* LoadContent returning early, without a store call and without running the
\* callback, while the database is not initialized.
LoadContent_DropsWhenNotReady(keys) ==
    /\ alive
    /\ IF database_status_ = "kOK"
       THEN IssueLoad("LoadContent", keys, NoKey,
                      StoreCall("LoadEntriesWithFilter", {}, {}, KeyFilter(KeySetOf(keys))),
                      "OnLoadEntriesForLoadContent")
       ELSE /\ nLoads < Cardinality(LoadIds)
            /\ nLoads' = nLoads + 1
            /\ loadReq' = [loadReq EXCEPT ![nLoads + 1] =
                   [api |-> "LoadContent", keys |-> keys, prefix |-> NoKey]]
            /\ UNCHANGED <<observerVars, database_status_, initPending, initDelivered, alive,
                           storeVars, commitHist, loadAnswer, loadResults, dropped>>

\* The three loads, called on the live object: each binds its filter and its
\* completion and makes one store call.
LoadContent(keys) ==
    /\ alive
    /\ IssueLoad("LoadContent", keys, NoKey,
                 StoreCall("LoadEntriesWithFilter", {}, {}, KeyFilter(KeySetOf(keys))),
                 "OnLoadEntriesForLoadContent")

\* LoadContentByPrefix binding the filter of LoadContent to the one key
\* equal to the prefix.
LoadContentByPrefix_ExactKey(prefix) ==
    /\ alive
    /\ IssueLoad("LoadContentByPrefix", <<>>, prefix,
                 StoreCall("LoadEntriesWithFilter", {}, {}, KeyFilter({prefix})),
                 "OnLoadEntriesForLoadContent")

LoadContentByPrefix(prefix) ==
    /\ alive
    /\ IssueLoad("LoadContentByPrefix", <<>>, prefix,
                 StoreCall("LoadEntriesWithFilter", {}, {}, PrefixFilter(prefix)),
                 "OnLoadEntriesForLoadContent")

LoadAllContentKeys ==
    /\ alive
    /\ IssueLoad("LoadAllContentKeys", <<>>, NoKey,
                 StoreCall("LoadKeys", {}, {}, NoFilter),
                 "OnLoadKeysForLoadAllContentKeys")

\* OnLoadEntriesForLoadContent building the results of a LoadContent by going
\* through the requested keys, one pair for each listed key the store handed
\* back.
OnLoadEntriesForLoadContent_PerRequestedKey(l, success, content) ==
    LET Pair(proto) == <<proto.key, proto.content_data>>
        found == SelectSeq(loadReq[l].keys,
                           LAMBDA k : \E i \in 1..Len(content) : content[i].key = k)
        load_results ==
            IF loadReq[l].api = "LoadContent"
            THEN [j \in 1..Len(found) |->
                     Pair(content[CHOOSE i \in 1..Len(content) : content[i].key = found[j]])]
            ELSE [i \in 1..Len(content) |-> Pair(content[i])]
    IN  loadResults' = [loadResults EXCEPT ![l] =
            Append(@, [success |-> success, data |-> load_results])]

\* OnLoadEntriesForLoadContent failing the load by itself while the database
\* is not initialized, whatever the store answered.
OnLoadEntriesForLoadContent_ChecksStatus(l, success, content) ==
    LET load_results == [i \in 1..Len(content) |->
                            <<content[i].key, content[i].content_data>>]
    IN  loadResults' = [loadResults EXCEPT ![l] =
            Append(@, IF database_status_ = "kOK"
                      THEN [success |-> success, data |-> load_results]
                      ELSE [success |-> FALSE, data |-> <<>>])]

\* OnLoadEntriesForLoadContent(start_time, callback, success, content) for
\* load l: every proto handed back becomes a (key, data) pair, in the order
\* of the vector, whatever success is, and the callback runs.
OnLoadEntriesForLoadContent(l, success, content) ==
    LET load_results == [i \in 1..Len(content) |->
                            <<content[i].key, content[i].content_data>>]
    IN  loadResults' = [loadResults EXCEPT ![l] =
            Append(@, [success |-> success, data |-> load_results])]

\* OnLoadKeysForLoadAllContentKeys running the callback with the vector as it
\* is after its entries were moved from: empty.
OnLoadKeysForLoadAllContentKeys_MovedFrom(l, success, keys) ==
    loadResults' = [loadResults EXCEPT ![l] =
        Append(@, [success |-> success, data |-> <<>>])]

\* OnLoadKeysForLoadAllContentKeys(start_time, callback, success, keys).
OnLoadKeysForLoadAllContentKeys(l, success, keys) ==
    loadResults' = [loadResults EXCEPT ![l] =
        Append(@, [success |-> success, data |-> keys])]

\* The completion of a load taking a failed load for a failed database: it
\* sets database_status_ to kError before the handler runs.
LoadEntriesCompletes_MarksFailed(c, success) ==
    /\ alive
    /\ c \in calls
    /\ c.handler = "OnLoadEntriesForLoadContent"
    /\ \E content \in StoreAnswers(success, StoreLoadEntries(c.call, contents)) :
           /\ loadAnswer' = [loadAnswer EXCEPT ![c.req.id] =
                  Append(@, [success |-> success, content |-> content])]
           /\ OnLoadEntriesForLoadContent(c.req.id, success, content)
    /\ calls' = calls \ {c}
    /\ database_status_' = IF success THEN database_status_ ELSE "kError"
    /\ UNCHANGED <<observerVars, initPending, initDelivered, alive, contents, posted, commitHist,
                   nLoads, loadReq, dropped>>

\* The store completes a LoadEntriesWithFilter and the bound handler runs.
LoadEntriesCompletes(c, success) ==
    /\ alive
    /\ c \in calls
    /\ c.handler = "OnLoadEntriesForLoadContent"
    /\ \E content \in StoreAnswers(success, StoreLoadEntries(c.call, contents)) :
           /\ loadAnswer' = [loadAnswer EXCEPT ![c.req.id] =
                  Append(@, [success |-> success, content |-> content])]
           /\ OnLoadEntriesForLoadContent(c.req.id, success, content)
    /\ calls' = calls \ {c}
    /\ UNCHANGED <<observerVars, database_status_, initPending, initDelivered, alive, contents, posted, commitHist,
                   nLoads, loadReq, dropped>>

\* The store completes a LoadKeys and the bound handler runs.
LoadKeysCompletes(c, success) ==
    /\ alive
    /\ c \in calls
    /\ c.handler = "OnLoadKeysForLoadAllContentKeys"
    /\ \E keys \in StoreAnswers(success, StoreLoadKeys(contents)) :
           /\ loadAnswer' = [loadAnswer EXCEPT ![c.req.id] =
                  Append(@, [success |-> success, content |-> keys])]
           /\ OnLoadKeysForLoadAllContentKeys(c.req.id, success, keys)
    /\ calls' = calls \ {c}
    /\ UNCHANGED <<observerVars, database_status_, initPending, initDelivered, alive, contents, posted, commitHist,
                   nLoads, loadReq, dropped>>

\* ---------------------------------------------------------- the destructor
\* ~FeedContentDatabase: the weak pointers of every bound completion are
\* invalidated.
Destroy ==
    /\ alive
    /\ alive' = FALSE
    /\ UNCHANGED <<observerVars, database_status_, initPending, initDelivered, storeVars, commitHist, loadHist, dropped>>

\* The completion of an update call bound to the object itself instead of a
\* weak pointer: OnOperationCommitted runs after the destructor.
CompletionDropped_Unretained(c, success) ==
    /\ ~alive
    /\ c \in calls
    /\ contents' = StoreRuns(c, success, contents)
    /\ IF c.handler = "OnOperationCommitted"
       THEN /\ outcome' = [outcome EXCEPT ![c.req.id] = Append(@, success)]
            /\ OnOperationCommitted(c.req.id, c.content_mutation, success, calls \ {c})
            /\ UNCHANGED <<nCommits, batch, snap, alone, dropped>>
       ELSE /\ calls' = calls \ {c}
            /\ dropped' = dropped \cup {c.req}
            /\ UNCHANGED <<posted, commitHist>>
    /\ UNCHANGED <<observerVars, database_status_, initPending, initDelivered, alive, loadHist>>

\* The store completes a call after the destructor: the store did its work,
\* the bound completion does not run, and what it held is destroyed.
CompletionDropped(c, success) ==
    /\ ~alive
    /\ c \in calls
    /\ contents' = StoreRuns(c, success, contents)
    /\ calls' = calls \ {c}
    /\ dropped' = dropped \cup {c.req}
    /\ UNCHANGED <<observerVars, database_status_, initPending, initDelivered, alive, posted, commitHist, loadHist>>

\* The store's Init completes after the destructor.
InitDropped ==
    /\ ~alive
    /\ initPending
    /\ initPending' = FALSE
    /\ UNCHANGED <<observerVars, database_status_, initDelivered, alive, storeVars, commitHist, loadHist, dropped>>

\* IsInitialized answering true as soon as the store's Init has completed,
\* whatever its status.
IsInitialized_AnyCompletion == database_status_ # "kNotInitialized"

\* FeedContentDatabase::IsInitialized().
IsInitialized == database_status_ = "kOK"

\* ------------------------------------------------------------ specification
InitStatuses == {"kOK", "kError"}
LoadKeyVectors == {<<KeyA, KeyA>>}
LoadPrefixes == {KeyA}

\* The steps every specification shares: all but CommitContentMutation.
Environment ==
    \/ \E c \in calls, success \in BOOLEAN : UpdateCompletes(c, success)
    \/ \E t \in posted : RunPostedTask(t)
    \/ \E status \in InitStatuses : OnDatabaseInitialized(status)
    \/ \E keys \in LoadKeyVectors : LoadContent(keys)
    \/ \E prefix \in LoadPrefixes : LoadContentByPrefix(prefix)
    \/ LoadAllContentKeys
    \/ \E c \in calls, success \in BOOLEAN : LoadEntriesCompletes(c, success)
    \/ \E c \in calls, success \in BOOLEAN : LoadKeysCompletes(c, success)
    \/ Destroy
    \/ \E c \in calls, success \in BOOLEAN : CompletionDropped(c, success)
    \/ InitDropped

Next ==
    \/ \E m \in Mutations(OpPool, MaxLen) : CommitContentMutation(m)
    \/ Environment

\* Behaviours of the object and its store, callers submitting mutations of
\* the four operation kinds.
Spec == Init /\ [][Next]_vars

NextU ==
    \/ \E m \in Mutations(OpPoolU, MaxLen) : CommitContentMutation(m)
    \/ Environment

\* The same with operations of a kind PerformNextOperation does not name.
SpecU == Init /\ [][NextU]_vars

\* The mutation pipeline without the read path.
NextCommit ==
    \/ \E m \in Mutations(OpPool, MaxLen) : CommitContentMutation(m)
    \/ \E c \in calls, success \in BOOLEAN : UpdateCompletes(c, success)
    \/ \E t \in posted : RunPostedTask(t)
    \/ \E status \in InitStatuses : OnDatabaseInitialized(status)
    \/ Destroy
    \/ \E c \in calls, success \in BOOLEAN : CompletionDropped(c, success)
    \/ InitDropped

\* The store eventually completes every call it is given (the sequenced task
\* runner of the store runs every task), and the owner sequence eventually
\* runs every task posted to it.
Fairness ==
    /\ WF_vars(\E c \in calls, success \in BOOLEAN : UpdateCompletes(c, success))
    /\ WF_vars(\E c \in calls, success \in BOOLEAN : CompletionDropped(c, success))
    /\ WF_vars(\E t \in posted : RunPostedTask(t))

LiveSpec == Init /\ [][NextCommit]_vars /\ Fairness

\* ------------------------------------------- a store that holds records
\* Operations of the four kinds on keys "a" and "b", with both ways of
\* deleting everything.
StorePool ==
    {Upsert(KeyA, "1"), Upsert(KeyB, "2"), Delete(KeyA),
     DeleteByPrefix(KeyA), DeleteByPrefix(NoKey), DeleteAll}

\* Records the store may hold when the object is constructed.
StoredRecords == {Record(KeyA, "0"), Record(KeyAB, "0"), Record(KeyB, "0")}
StoredContents == SUBSET StoredRecords

\* The state after construction over a store that already holds records.
InitStored ==
    /\ database_status_ = "kNotInitialized"
    /\ initPending = TRUE
    /\ initDelivered = <<>>
    /\ alive = TRUE
    /\ contents \in StoredContents
    /\ calls = {}
    /\ posted = {}
    /\ nCommits = 0
    /\ batch = [b \in BatchIds |-> <<>>]
    /\ snap = {}
    /\ alone = TRUE
    /\ sent = [b \in BatchIds |-> <<>>]
    /\ entered = [b \in BatchIds |-> <<>>]
    /\ outcome = [b \in BatchIds |-> <<>>]
    /\ results = [b \in BatchIds |-> <<>>]
    /\ OperationCommitTime = [b \in BatchIds |-> <<>>]
    /\ nLoads = 0
    /\ loadReq = [l \in LoadIds |-> NoLoad]
    /\ loadAnswer = [l \in LoadIds |-> <<>>]
    /\ loadResults = [l \in LoadIds |-> <<>>]
    /\ dropped = {}
    /\ NoObserver

\* Nothing is in flight and nothing is posted.
Quiet == calls = {} /\ posted = {}

\* Mutations of one operation.
FollowUps == {<<operation>> : operation \in StorePool}

\* A caller that waits for IsInitialized(), makes one request at a time (a
\* mutation, then a follow-up of one operation), and reads the keys back
\* after its last mutation.
NextSeq ==
    \/ \E status \in InitStatuses : OnDatabaseInitialized(status)
    \/ \E m \in IF nCommits = 0 THEN Mutations(StorePool, MaxLen) ELSE FollowUps :
           Quiet /\ IsInitialized /\ CommitContentMutation(m)
    \/ \E c \in calls, success \in BOOLEAN : UpdateCompletes(c, success)
    \/ \E t \in posted : RunPostedTask(t)
    \/ Quiet /\ nCommits = Cardinality(BatchIds) /\ LoadAllContentKeys
    \/ \E c \in calls, success \in BOOLEAN : LoadKeysCompletes(c, success)

SpecSeq == InitStored /\ [][NextSeq]_vars

\* What the reading caller asks for: a vector naming a key twice, a vector of
\* two keys, a vector of one key; every prefix of the keys of the model.
ReadKeyVectors == {<<KeyA, KeyA>>, <<KeyA, KeyB>>, <<KeyAB>>}
ReadPrefixes == {NoKey, KeyA, KeyAB, KeyB}

\* A caller that reads a store holding records, and mutates nothing.
NextRead ==
    \/ \E status \in InitStatuses : OnDatabaseInitialized(status)
    \/ \E keys \in ReadKeyVectors : LoadContent(keys)
    \/ \E prefix \in ReadPrefixes : LoadContentByPrefix(prefix)
    \/ LoadAllContentKeys
    \/ \E c \in calls, success \in BOOLEAN : LoadEntriesCompletes(c, success)
    \/ \E c \in calls, success \in BOOLEAN : LoadKeysCompletes(c, success)

SpecRead == InitStored /\ [][NextRead]_vars

\* ------------------------------------------------------------- vocabulary
IsPrefix(s, t) == Len(s) <= Len(t) /\ SubSeq(t, 1, Len(s)) = s
Committed == {b \in BatchIds : b <= nCommits}
Issued == {l \in LoadIds : l <= nLoads}
InFlightOf(b) == CallsOf(CommitReq(b))
AllTrue(seq) == \A i \in 1..Len(seq) : seq[i] = TRUE

\* ------------------------------------------------------------------ claims

\* C1: within one batch the operations go to the store in submission order
\* (what was dispatched is a prefix of the batch), at most one call of the
\* batch is in flight, and operation N+1 is dispatched only after the
\* completion of operation N was delivered to OnOperationCommitted.
C1_InOrderOneInFlight ==
    \A b \in BatchIds :
        /\ IsPrefix(sent[b], batch[b])
        /\ Cardinality(InFlightOf(b)) <= 1
        /\ Len(sent[b]) <= Len(outcome[b]) + 1
        /\ InFlightOf(b) # {} => Len(sent[b]) = Len(outcome[b]) + 1
        /\ \A c \in InFlightOf(b) : c.idx = Len(sent[b])

\* A batch of two different operations whose second operation is in flight
\* after the first one's completion was delivered.
C1_Witness ==
    \E b \in Committed :
        /\ Len(batch[b]) >= 2
        /\ batch[b][1] # batch[b][2]
        /\ Len(sent[b]) = 2
        /\ outcome[b] = <<TRUE>>
        /\ InFlightOf(b) # {}

\* C2: when a store call of a batch reports failure to OnOperationCommitted,
\* it is the last call of the batch: no later operation is dispatched, the
\* callback has run with false in that very step, and nothing of the batch is
\* left in flight or posted.
C2_HaltOnFailure ==
    \A b \in BatchIds : \A k \in 1..Len(outcome[b]) :
        outcome[b][k] = FALSE =>
            /\ k = Len(outcome[b])
            /\ Len(sent[b]) = k
            /\ results[b] = <<FALSE>>
            /\ InFlightOf(b) = {}
            /\ PostedOf(CommitReq(b)) = {}

\* A batch of two operations whose first store call failed.
C2_Witness ==
    \E b \in Committed :
        /\ Len(batch[b]) >= 2
        /\ outcome[b] = <<FALSE>>
        /\ results[b] = <<FALSE>>
        /\ Len(sent[b]) = 1

\* C3: for a non-empty batch, the callback runs with true only when every
\* operation was dispatched, once and in submission order, and every
\* completion was delivered with success; and once the store answered
\* success to every operation of the batch the callback has run with true.
C3_AllSucceed ==
    \A b \in Committed :
        batch[b] # <<>> =>
            /\ (\E i \in 1..Len(results[b]) : results[b][i] = TRUE) =>
                   /\ sent[b] = batch[b]
                   /\ Len(outcome[b]) = Len(batch[b])
                   /\ AllTrue(outcome[b])
            /\ (Len(outcome[b]) = Len(batch[b]) /\ AllTrue(outcome[b])) =>
                   /\ sent[b] = batch[b]
                   /\ results[b] = <<TRUE>>
                   /\ InFlightOf(b) = {}

\* A batch of the greatest length reported as committed.
C3_Witness ==
    \E b \in Committed :
        /\ Len(batch[b]) = MaxLen
        /\ results[b] = <<TRUE>>
        /\ sent[b] = batch[b]

C5_EmptyCommit ==
    \A b \in Committed :
        batch[b] = <<>> =>
            /\ sent[b] = <<>>
            /\ outcome[b] = <<>>
            /\ InFlightOf(b) = {}
            /\ \/ results[b] = <<TRUE>> /\ PostedOf(CommitReq(b)) = {}
               \/ /\ results[b] = <<>>
                  /\ PostedOf(CommitReq(b)) = {[req |-> CommitReq(b), success |-> TRUE]}

\* An empty mutation reported as committed before the store was initialized,
\* and no store call in flight.
C5_Witness ==
    \E b \in Committed :
        /\ batch[b] = <<>>
        /\ results[b] = <<TRUE>>
        /\ database_status_ = "kNotInitialized"
        /\ calls = {}

\* C6: the callback of a request runs at most once.
C6_AtMostOnce ==
    /\ \A b \in BatchIds : Len(results[b]) <= 1
    /\ \A l \in LoadIds : Len(loadResults[l]) <= 1

\* A failed batch and a load, each reported once.
C6_Witness ==
    /\ \E b \in Committed : results[b] = <<FALSE>> /\ Len(batch[b]) >= 2
    /\ \E l \in Issued : Len(loadResults[l]) = 1

\* C7 as stated: every committed batch has its callback run exactly once,
\* under Fairness.
C7_AlwaysReports ==
    \A b \in BatchIds : (b \in Committed) ~> (Len(results[b]) = 1)

\* C7 amended: under Fairness every committed batch has its callback run,
\* and never more than once, unless the destructor ran while a store call
\* of the batch was in flight and the completion was dropped.
C7_ReportsUnlessDestroyed ==
    /\ [](\A b \in BatchIds : Len(results[b]) <= 1)
    /\ \A b \in BatchIds :
           (b \in Committed) ~> (Len(results[b]) = 1 \/ CommitReq(b) \in dropped)

\* A batch of the greatest length reported by a live object with nothing of
\* it left in flight, and another batch cut off by the destructor.
C7_Witness ==
    /\ \E b \in Committed :
           /\ Len(batch[b]) = MaxLen
           /\ Len(results[b]) = 1
           /\ Len(outcome[b]) = MaxLen
    /\ \E b \in Committed : CommitReq(b) \in dropped /\ results[b] = <<>>

\* The meaning of one operation on the store's records (spec 4.2).
ApplyOp(op, db) ==
    CASE op.type = "CONTENT_UPSERT" ->
             {r \in db : r.key # op.key} \cup {Record(op.key, op.value)}
      [] op.type = "CONTENT_DELETE" -> {r \in db : r.key # op.key}
      [] op.type = "CONTENT_DELETE_BY_PREFIX" ->
             {r \in db : ~IsPrefix(op.prefix, r.key)}
      [] op.type = "CONTENT_DELETE_ALL" -> {}
      [] OTHER -> db

RECURSIVE ApplyAll(_, _)
ApplyAll(ops, db) ==
    IF ops = <<>> THEN db ELSE ApplyAll(Tail(ops), ApplyOp(Head(ops), db))

\* C8: for the latest batch, committed while no other batch was outstanding,
\* once operation k has failed the store holds the contents at submission
\* transformed by operations 1..k-1, and only k calls were made for the
\* batch (no compensating call, nothing of k+1..n).
C8_PartialApplication ==
    \A b \in Committed : \A k \in 1..Len(outcome[b]) :
        (b = nCommits /\ alone /\ outcome[b][k] = FALSE) =>
            /\ contents = ApplyAll(SubSeq(batch[b], 1, k - 1), snap)
            /\ Len(sent[b]) = k
            /\ InFlightOf(b) = {}

\* The second operation of a batch failed and the first one's effect is in
\* the store.
C8_Witness ==
    \E b \in Committed :
        /\ b = nCommits
        /\ alone
        /\ outcome[b] = <<TRUE, FALSE>>
        /\ contents # snap
        /\ contents = ApplyOp(batch[b][1], snap)

\* The first operation of the unrecognized kind in a mutation (0: none).
FirstUnsupported(m) ==
    LET at == {i \in 1..Len(m) : m[i].type \notin KnownTypes}
    IN  IF at = {} THEN 0 ELSE CHOOSE i \in at : \A j \in at : i <= j

\* C9: a batch holding an operation of an unrecognized kind at position u
\* never has that operation or a later one dispatched and never reports
\* true; once the operations before u have completed with success, nothing
\* of the batch is in flight and the callback has been posted with false or
\* has run with false.
C9_UnsupportedFails ==
    \A b \in Committed :
        LET u == FirstUnsupported(batch[b])
        IN  u > 0 =>
            /\ Len(sent[b]) < u
            /\ \A i \in 1..Len(results[b]) : results[b][i] = FALSE
            /\ (Len(outcome[b]) = u - 1 /\ AllTrue(outcome[b])) =>
                   /\ InFlightOf(b) = {}
                   /\ \/ results[b] = <<FALSE>> /\ PostedOf(CommitReq(b)) = {}
                      \/ /\ results[b] = <<>>
                         /\ PostedOf(CommitReq(b)) =
                                {[req |-> CommitReq(b), success |-> FALSE]}

\* An unrecognized operation reached after a successful one: the callback
\* has run with false, and only the first operation went to the store.
C9_Witness ==
    \E b \in Committed :
        /\ FirstUnsupported(batch[b]) = 2
        /\ outcome[b] = <<TRUE>>
        /\ results[b] = <<FALSE>>
        /\ Len(sent[b]) = 1

\* A request whose callback has not run.
Pending ==
    {CommitReq(b) : b \in {x \in Committed : results[x] = <<>>}}
        \cup {LoadReqId(l) : l \in {x \in Issued : loadResults[x] = <<>>}}

\* C10 as stated: while the store's open has not completed, no request has
\* reached the store (each is queued, or rejected without a store call), and
\* no request is lost.
C10_QueuedOrRejected ==
    /\ initPending =>
           /\ calls = {}
           /\ \A b \in BatchIds : sent[b] = <<>>
    /\ \A r \in Pending : CallsOf(r) # {} \/ PostedOf(r) # {} \/ r \in dropped

\* C10 amended: a load or a Commit of a non-empty mutation made while
\* database_status_ is kNotInitialized puts its store call in flight in that
\* very step and posts nothing (it is neither queued nor rejected); and a
\* request is never lost: until its callback runs, a store call or a posted
\* callback of it is outstanding, or the destructor dropped its completion.
C10_ForwardedNeverLost ==
    /\ [](\A r \in Pending : CallsOf(r) # {} \/ PostedOf(r) # {} \/ r \in dropped)
    /\ [][(/\ database_status_ = "kNotInitialized"
           /\ \/ nLoads' = nLoads + 1
              \/ nCommits' = nCommits + 1 /\ batch'[nCommits'] # <<>>)
          => (/\ posted' = posted
              /\ calls \subseteq calls'
              /\ Cardinality(calls' \ calls) = 1
              /\ \A c \in calls' \ calls :
                     c.req = IF nLoads' = nLoads + 1 THEN LoadReqId(nLoads')
                             ELSE CommitReq(nCommits'))]_vars

\* A load and a non-empty batch, both answered by the store while
\* database_status_ was still kNotInitialized.
C10_Witness ==
    /\ database_status_ = "kNotInitialized"
    /\ initPending
    /\ \E l \in Issued : Len(loadResults[l]) = 1
    /\ \E b \in Committed : batch[b] # <<>> /\ Len(results[b]) = 1

\* The calls put in flight by the step.
NewCalls == calls' \ calls

\* The step is a load, or a CommitContentMutation of a non-empty mutation.
RequestArrives ==
    \/ nLoads' = nLoads + 1
    \/ nCommits' = nCommits + 1 /\ batch'[nCommits'] # <<>>

\* C11 as stated: a store call is put in flight only while database_status_
\* is kOK.
C11_StoreCallsOnlyWhenReady ==
    [][NewCalls # {} => database_status_ = "kOK"]_vars

\* C11 amended: in every value of database_status_ (kNotInitialized, kError,
\* kOK alike) a load or a CommitContentMutation of a non-empty mutation puts
\* exactly one store call, its own, in flight in that very step, posts no
\* callback, and leaves database_status_ as it was; and after a successful
\* completion the next operation of a batch is dispatched whatever
\* database_status_ is.
C11_StoreCallsInEveryStatus ==
    [][/\ RequestArrives =>
              /\ Cardinality(NewCalls) = 1
              /\ \A c \in NewCalls :
                     c.req = IF nLoads' = nLoads + 1 THEN LoadReqId(nLoads')
                             ELSE CommitReq(nCommits')
              /\ posted' = posted
              /\ database_status_' = database_status_
       /\ \A b \in BatchIds :
              (/\ outcome'[b] = Append(outcome[b], TRUE)
               /\ Len(outcome'[b]) < Len(batch[b])
               /\ alive)
              => \E c \in NewCalls : c.req = CommitReq(b)]_vars

\* Before the store's open has completed, a load call and an update call of
\* a batch are in flight together.
C11_Witness ==
    /\ initPending
    /\ database_status_ = "kNotInitialized"
    /\ \E c \in calls : c.req.api = "Load"
    /\ \E c \in calls : c.req.api = "Commit"

\* What the callback of a load is run with, as a function of the request and
\* of the store's answer alone.
LoadOutput(request, answer) ==
    [success |-> answer.success,
     data |-> IF request.api = "LoadAllContentKeys" THEN answer.content
              ELSE [i \in 1..Len(answer.content) |->
                       <<answer.content[i].key, answer.content[i].content_data>>]]

\* The store's answers so far settle the batch: one of them is a failure, or
\* there is one for every operation.
Settled(b) ==
    \/ \E k \in 1..Len(outcome[b]) : outcome[b][k] = FALSE
    \/ Len(outcome[b]) = Len(batch[b])

\* C12: (one policy) a load of any of the three kinds or a Commit of a
\* non-empty mutation arriving while database_status_ is not kOK is handled
\* in one way, forwarded: its first store call is put in flight in that step,
\* no callback is posted or run; (determinism) what a callback is run with is
\* a function of the request and of the store's answers to it, and of nothing
\* else: a batch's callback runs once the answers settle the batch, with the
\* conjunction of the answers, and a load's callback runs with the store's
\* answer; so two runs of the same requests with the same store answers give
\* the same callback results.
C12_OnePolicyDeterministic ==
    /\ [][(RequestArrives /\ database_status_ # "kOK") =>
              /\ \E c \in NewCalls : NewCalls = {c} /\ c.idx = 1
              /\ posted' = posted
              /\ results' = results
              /\ loadResults' = loadResults]_vars
    /\ [](\A b \in Committed :
              /\ results[b] # <<>> => results[b] = <<AllTrue(outcome[b])>>
              /\ batch[b] # <<>> => (results[b] # <<>> <=> Settled(b)))
    /\ [](\A l \in LoadIds :
              /\ Len(loadResults[l]) = Len(loadAnswer[l])
              /\ \A i \in 1..Len(loadAnswer[l]) :
                     loadResults[l][i] = LoadOutput(loadReq[l], loadAnswer[l][i]))

\* Before the store's open has completed: two batches of the same operations
\* with the same store answers have reported the same result, and a load has
\* reported the store's failure.
C12_Witness ==
    /\ initPending
    /\ \E b1, b2 \in Committed :
           /\ b1 # b2
           /\ batch[b1] # <<>>
           /\ batch[b1] = batch[b2]
           /\ outcome[b1] = outcome[b2]
           /\ results[b1] = <<FALSE>>
           /\ results[b2] = <<FALSE>>
    /\ \E l \in Issued : Len(loadResults[l]) = 1 /\ ~loadResults[l][1].success

\* C13: database_status_ is kNotInitialized until the completion of the
\* store's Init is delivered; it changes only in the step that delivers that
\* completion to the live object, from kNotInitialized to the status the
\* store reports, so at most once; that step (where the DCHECK_EQ of
\* OnDatabaseInitialized is evaluated) always finds kNotInitialized; and a
\* step that is a Commit, a load, or a completion of a store call, failed or
\* not, leaves it as it is.
C13_StatusSetOnce ==
    /\ [](initPending => database_status_ = "kNotInitialized")
    /\ [](database_status_ \in {"kNotInitialized"} \cup InitStatuses)
    /\ [][(initPending /\ ~initPending' /\ alive) =>
              /\ database_status_ = "kNotInitialized"
              /\ database_status_' \in InitStatuses]_vars
    /\ [][database_status_' # database_status_ =>
              /\ database_status_ = "kNotInitialized"
              /\ initPending /\ ~initPending' /\ alive
              /\ UNCHANGED <<storeVars, commitHist, loadHist>>]_vars
    /\ [][(\/ nCommits' # nCommits
           \/ nLoads' # nLoads
           \/ outcome' # outcome
           \/ loadAnswer' # loadAnswer
           \/ calls' # calls) => database_status_' = database_status_]_vars

\* After the store's Init completed with success: a store call of a batch
\* has failed, a load has been answered, and database_status_ is still kOK.
C13_Witness ==
    /\ ~initPending
    /\ database_status_ = "kOK"
    /\ \E b \in Committed : Len(outcome[b]) > 0 /\ ~AllTrue(outcome[b])
    /\ \E l \in Issued : Len(loadAnswer[l]) = 1

\* C14: IsInitialized() is true exactly when the completion of the store's
\* Init has been delivered to the object with kOK: it is false while the
\* completion is outstanding, false when the completion was dropped by the
\* destructor, and false after a completion with another status.
C14_IsInitializedIffOpenedOK ==
    /\ IsInitialized <=> initDelivered = <<"kOK">>
    /\ initPending => ~IsInitialized
    /\ (initDelivered # <<>> /\ initDelivered[1] # "kOK") => ~IsInitialized

\* The store's Init completed with kError, batches and loads went through
\* since, and IsInitialized() is false.
C14_Witness ==
    /\ initDelivered = <<"kError">>
    /\ ~IsInitialized
    /\ \E b \in Committed : Len(results[b]) = 1
    /\ \E l \in Issued : Len(loadResults[l]) = 1

\* The operation decides what becomes of key k.
Touches(op, k) ==
    \/ op.type \in {"CONTENT_UPSERT", "CONTENT_DELETE"} /\ op.key = k
    \/ op.type = "CONTENT_DELETE_BY_PREFIX" /\ IsPrefix(op.prefix, k)
    \/ op.type = "CONTENT_DELETE_ALL"

KeysOf(db) == {r.key : r \in db}

\* C15: once the latest batch, committed while no other batch was
\* outstanding, has reported success, the store holds the contents at
\* submission with the operations of the batch applied one after the other;
\* for an Upsert or Delete of a key that no later operation of the batch
\* touches, the key holds the upserted value, or is absent; and after
\* [Upsert a, Upsert b] then [DeleteByPrefix a], both successful, the keys of
\* the store are exactly {b}.
C15_SequentialApplication ==
    /\ \A b \in Committed :
           (b = nCommits /\ alone /\ results[b] = <<TRUE>>) =>
               /\ contents = ApplyAll(batch[b], snap)
               /\ \A i \in 1..Len(batch[b]) :
                      LET op == batch[b][i]
                      IN  (/\ op.type \in {"CONTENT_UPSERT", "CONTENT_DELETE"}
                           /\ \A j \in (i + 1)..Len(batch[b]) : ~Touches(batch[b][j], op.key))
                          => IF op.type = "CONTENT_UPSERT"
                             THEN {r \in contents : r.key = op.key} = {Record(op.key, op.value)}
                             ELSE op.key \notin KeysOf(contents)
    /\ (/\ nCommits = 2
        /\ batch[1] = <<Upsert(KeyA, "1"), Upsert(KeyB, "2")>>
        /\ batch[2] = <<DeleteByPrefix(KeyA)>>
        /\ results[1] = <<TRUE>>
        /\ results[2] = <<TRUE>>)
       => KeysOf(contents) = {KeyB}

\* Over a store that held "a", "ab" and "b": [Upsert a, Upsert b] then
\* [DeleteByPrefix a] have both reported success and the store holds the
\* upserted "b" alone.
C15_Witness ==
    /\ nCommits = 2
    /\ batch[1] = <<Upsert(KeyA, "1"), Upsert(KeyB, "2")>>
    /\ batch[2] = <<DeleteByPrefix(KeyA)>>
    /\ results[1] = <<TRUE>>
    /\ results[2] = <<TRUE>>
    /\ snap = {Record(KeyA, "1"), Record(KeyAB, "0"), Record(KeyB, "2")}
    /\ contents = {Record(KeyB, "2")}

UpdateKinds == {"UpdateEntries", "UpdateEntriesWithRemoveFilter"}

\* C16: a step dispatches at most one operation of a batch, and with it puts
\* exactly one store call in flight, an update call bound to
\* OnOperationCommitted; once a store call of a batch has failed nothing of
\* the batch is dispatched any more; the operations dispatched are a prefix
\* of the batch, so none is dispatched twice; and the store calls made for a
\* batch (answered or in flight) are as many as the operations dispatched,
\* never more than the batch's length.
C16_OneCallPerDispatch ==
    /\ [][\A b \in BatchIds :
              /\ sent'[b] # sent[b] =>
                     /\ Len(sent'[b]) = Len(sent[b]) + 1
                     /\ \E c \in NewCalls :
                            /\ NewCalls = {c}
                            /\ c.req = CommitReq(b)
                            /\ c.call.kind \in UpdateKinds
                            /\ c.handler = "OnOperationCommitted"
              /\ (\E c \in NewCalls : c.req = CommitReq(b)) => sent'[b] # sent[b]
              /\ (\E k \in 1..Len(outcome[b]) : outcome[b][k] = FALSE) =>
                     /\ sent'[b] = sent[b]
                     /\ ~\E c \in NewCalls : c.req = CommitReq(b)]_vars
    /\ [](\A b \in BatchIds :
              /\ IsPrefix(sent[b], batch[b])
              /\ Len(outcome[b]) + Cardinality(InFlightOf(b)) = Len(sent[b])
              /\ Len(sent[b]) <= Len(batch[b]))

\* A batch whose first operation is a delete or a delete by prefix and whose
\* second store call failed: two calls were made, none is in flight, the
\* callback has run with false.
C16_Witness ==
    \E b \in Committed :
        /\ Len(batch[b]) >= 2
        /\ batch[b][1].type \in {"CONTENT_DELETE", "CONTENT_DELETE_BY_PREFIX"}
        /\ outcome[b] = <<TRUE, FALSE>>
        /\ Len(sent[b]) = 2
        /\ InFlightOf(b) = {}
        /\ results[b] = <<FALSE>>

\* The two mutations that delete everything.
DeletesEverything == {<<DeleteAll>>, <<DeleteByPrefix(NoKey)>>}

\* C17: DeleteAll and DeleteByPrefix("") are dispatched as the same store
\* call, UpdateEntriesWithRemoveFilter with the prefix filter bound to "",
\* which accepts every key; a store call in flight for either mutation is
\* that call; once either, as the latest mutation, has reported success the
\* store holds nothing, whatever it held at submission; and a successful
\* LoadAllContentKeys made after it hands the caller no key.
C17_DeleteAllIsDeleteByEmptyPrefix ==
    /\ Dispatch(DeleteAll) = Dispatch(DeleteByPrefix(NoKey))
    /\ Dispatch(DeleteAll) =
           StoreCall("UpdateEntriesWithRemoveFilter", {}, {}, PrefixFilter(NoKey))
    /\ \A key \in {NoKey, KeyA, KeyAB, KeyB} :
           RunFilter(Dispatch(DeleteAll).filter, key)
    /\ \A b \in Committed :
           batch[b] \in DeletesEverything =>
               /\ \A c \in InFlightOf(b) : c.call = Dispatch(DeleteAll)
               /\ (b = nCommits /\ results[b] = <<TRUE>>) =>
                      /\ contents = {}
                      /\ \A l \in Issued : \A i \in 1..Len(loadResults[l]) :
                             loadResults[l][i].success => loadResults[l][i].data = <<>>

\* A mutation starting with DeleteAll wrote a record again and reported
\* success; then [DeleteByPrefix("")], committed over the store holding
\* records, reported success: the store is empty, and LoadAllContentKeys has
\* handed the caller an empty list.
C17_Witness ==
    /\ nCommits = 2
    /\ Len(batch[1]) = 2
    /\ batch[1][1] = DeleteAll
    /\ results[1] = <<TRUE>>
    /\ batch[2] = <<DeleteByPrefix(NoKey)>>
    /\ snap # {}
    /\ results[2] = <<TRUE>>
    /\ contents = {}
    /\ loadResults[1] = <<[success |-> TRUE, data |-> <<>>]>>

Elements(seq) == {seq[i] : i \in 1..Len(seq)}
NoDuplicates(seq) == Cardinality(Elements(seq)) = Len(seq)
Pairs(db) == {<<r.key, r.content_data>> : r \in db}

\* C18: over a store whose records do not change, the callback of a
\* successful LoadContentByPrefix(p) is run with the (key, data) pairs of
\* exactly the records whose key starts with p, and the callback of a
\* successful LoadContent(keys) with the pairs of exactly the records whose
\* key occurs in keys: each such record once, however often keys names it,
\* and nothing for a key the store does not hold.
C18_LoadsReturnExactlyMatching ==
    \A l \in Issued : \A i \in 1..Len(loadResults[l]) :
        LET out == loadResults[l][i]
            request == loadReq[l]
        IN  out.success =>
            /\ request.api = "LoadContentByPrefix" =>
                   /\ NoDuplicates(out.data)
                   /\ Elements(out.data) =
                          Pairs({r \in contents : IsPrefix(request.prefix, r.key)})
            /\ request.api = "LoadContent" =>
                   /\ NoDuplicates(out.data)
                   /\ Elements(out.data) =
                          Pairs({r \in contents :
                                    \E j \in 1..Len(request.keys) : request.keys[j] = r.key})

\* A successful LoadContent of a vector naming "a" twice, over a store
\* holding "a", "ab" and "b": one pair, for "a".
C18_Witness ==
    /\ contents = StoredRecords
    /\ loadReq[1].api = "LoadContent"
    /\ loadReq[1].keys = <<KeyA, KeyA>>
    /\ loadResults[1] = <<[success |-> TRUE, data |-> << <<KeyA, "0">> >>]>>

\* C19 as stated: whenever the store answers a load with failure, the
\* caller's callback is run with false and an empty collection, whatever
\* vector the store handed back with the failure.
C19_FailedLoadGivesEmpty ==
    \A l \in Issued : \A i \in 1..Len(loadAnswer[l]) :
        ~loadAnswer[l][i].success =>
            /\ Len(loadResults[l]) >= i
            /\ ~loadResults[l][i].success
            /\ loadResults[l][i].data = <<>>

\* C20: for [Delete(a)] committed twice in succession: each commit makes
\* one store call, whether or not the store holds "a"; each reports what the
\* store answered, so success when the store reports success; after the
\* first successful commit, and after the second, the store holds no "a";
\* and after the second the store is as it was when the second was
\* submitted.
C20_DeleteTwice ==
    (/\ nCommits >= 1
     /\ batch[1] = <<Delete(KeyA)>>
     /\ nCommits = 2 => batch[2] = <<Delete(KeyA)>>)
    => /\ \A b \in Committed :
              /\ sent[b] = batch[b]
              /\ results[b] = outcome[b]
       /\ (nCommits = 1 /\ results[1] = <<TRUE>>) =>
              /\ KeyA \notin KeysOf(contents)
              /\ contents = {r \in snap : r.key # KeyA}
       /\ (nCommits = 2 /\ results[1] = <<TRUE>> /\ Len(results[2]) = 1) =>
              /\ KeyA \notin KeysOf(contents)
              /\ contents = snap

\* [Delete(a)] was committed twice, both commits reported success, and the
\* store holds the other records it held.
C20_Witness ==
    /\ nCommits = 2
    /\ batch[1] = <<Delete(KeyA)>>
    /\ batch[2] = <<Delete(KeyA)>>
    /\ results[1] = <<TRUE>>
    /\ results[2] = <<TRUE>>
    /\ contents = {Record(KeyAB, "0"), Record(KeyB, "0")}
    /\ contents = snap

\* ------------------------------------------------- reading and deleting by prefix
\* Records whose keys differ in case, and a key that extends another.
PrefixRecords ==
    {Record(KeyUpperA, "0"), Record(KeyA, "0"), Record(KeyAB, "0"), Record(KeyB, "0")}

\* Prefixes: empty, equal to a key, differing from a key in case only, and
\* longer than every key.
FilterPrefixes == {NoKey, KeyA, KeyUpperA, KeyAB, KeyABC}
PrefixDeletes == {<<DeleteByPrefix(p)>> : p \in FilterPrefixes}

InitPrefix ==
    /\ database_status_ = "kNotInitialized"
    /\ initPending = TRUE
    /\ initDelivered = <<>>
    /\ alive = TRUE
    /\ contents \in SUBSET PrefixRecords
    /\ calls = {}
    /\ posted = {}
    /\ nCommits = 0
    /\ batch = [b \in BatchIds |-> <<>>]
    /\ snap = {}
    /\ alone = TRUE
    /\ sent = [b \in BatchIds |-> <<>>]
    /\ entered = [b \in BatchIds |-> <<>>]
    /\ outcome = [b \in BatchIds |-> <<>>]
    /\ results = [b \in BatchIds |-> <<>>]
    /\ OperationCommitTime = [b \in BatchIds |-> <<>>]
    /\ nLoads = 0
    /\ loadReq = [l \in LoadIds |-> NoLoad]
    /\ loadAnswer = [l \in LoadIds |-> <<>>]
    /\ loadResults = [l \in LoadIds |-> <<>>]
    /\ dropped = {}
    /\ NoObserver

\* A caller that, once the database is open, reads by a prefix and deletes by
\* a prefix, in either order and possibly overlapping.
NextPrefix ==
    \/ \E status \in InitStatuses : OnDatabaseInitialized(status)
    \/ \E m \in PrefixDeletes :
           IsInitialized /\ nCommits = 0 /\ CommitContentMutation(m)
    \/ \E prefix \in FilterPrefixes : IsInitialized /\ LoadContentByPrefix(prefix)
    \/ \E c \in calls, success \in BOOLEAN : UpdateCompletes(c, success)
    \/ \E c \in calls, success \in BOOLEAN : LoadEntriesCompletes(c, success)

SpecPrefix == InitPrefix /\ [][NextPrefix]_vars

\* key = prefix followed by something, character for character.
BeginsWith(key, prefix) == \E n \in 0..Len(key) : SubSeq(key, 1, n) = prefix
KeysIn(seq) == {seq[i][1] : i \in 1..Len(seq)}

\* The store answers the DeleteByPrefix of batch b with success in this step.
PrefixDeleteSucceeds(b) ==
    /\ outcome'[b] = Append(outcome[b], TRUE)
    /\ sent[b][Len(outcome'[b])].type = "CONTENT_DELETE_BY_PREFIX"

\* The callback of the LoadContentByPrefix l is run with success in this step.
PrefixLoadSucceeds(l) ==
    /\ loadReq[l].api = "LoadContentByPrefix"
    /\ Len(loadResults'[l]) = Len(loadResults[l]) + 1
    /\ loadResults'[l][Len(loadResults'[l])].success

\* C21: a successful DeleteByPrefix(p) removes exactly the keys a
\* LoadContentByPrefix(p) returns immediately before it and leaves every
\* record whose key does not start with p as it was; a LoadContentByPrefix(p)
\* immediately after it returns nothing.  In the step of the successful
\* delete: the keys removed are the keys starting with p, a load call for p
\* in flight hands back those keys when run before the step and none when run
\* after it, and the other records stay.  In the step of a successful load
\* for p: run while the delete is in flight it reports the keys the delete
\* removes when it runs next, run after the delete succeeded it reports none.
C21_DeleteByPrefixRemovesWhatLoadByPrefixReturns ==
    [][/\ \A b \in Committed : PrefixDeleteSucceeds(b) =>
              LET p == sent[b][Len(outcome'[b])].prefix
                  removed == KeysOf(contents) \ KeysOf(contents')
              IN  /\ removed = {k \in KeysOf(contents) : BeginsWith(k, p)}
                  /\ contents' = {r \in contents : ~BeginsWith(r.key, p)}
                  /\ \A d \in calls :
                         (/\ d.handler = "OnLoadEntriesForLoadContent"
                          /\ loadReq[d.req.id].prefix = p)
                         => /\ KeysOf(Elements(StoreLoadEntries(d.call, contents))) = removed
                            /\ StoreLoadEntries(d.call, contents') = <<>>
       /\ \A l \in Issued : PrefixLoadSucceeds(l) =>
              LET data == loadResults'[l][Len(loadResults'[l])].data
              IN  \A b \in Committed :
                      batch[b] = <<DeleteByPrefix(loadReq[l].prefix)>> =>
                          /\ results[b] = <<TRUE>> => data = <<>>
                          /\ \A c \in InFlightOf(b) :
                                 KeysIn(data) = KeysOf(contents)
                                     \ KeysOf(StoreUpdate(c.call, contents))
      ]_vars

\* Over a store holding "A", "a", "ab" and "b", LoadContentByPrefix("a")
\* returned "a" and "ab", and then DeleteByPrefix("a") succeeded and left "A"
\* and "b".
C21_Witness ==
    /\ snap = PrefixRecords
    /\ batch[1] = <<DeleteByPrefix(KeyA)>>
    /\ loadReq[1].prefix = KeyA
    /\ loadResults[1] = <<[success |-> TRUE,
                           data |-> << <<KeyA, "0">>, <<KeyAB, "0">> >>]>>
    /\ results[1] = <<TRUE>>
    /\ contents = {Record(KeyUpperA, "0"), Record(KeyB, "0")}

\* C22: a bound prefix filter accepts a key exactly when the key begins with
\* the prefix, compared case-sensitively: the empty prefix accepts every
\* key, a prefix equal to the key accepts it, a prefix longer than the key
\* never does, and a prefix that differs from the start of the key in case
\* only does not.  With the store unchanged, a successful
\* LoadContentByPrefix reports the keys its filter accepts.
C22_PrefixFilterIsCaseSensitiveStartsWith ==
    /\ \A c \in calls : c.call.filter.by = "prefix" =>
           LET p == c.call.filter.key_prefix
           IN  \A k \in Elements(KeyOrder) :
                   /\ RunFilter(c.call.filter, k) <=> BeginsWith(k, p)
                   /\ p = NoKey => RunFilter(c.call.filter, k)
                   /\ p = k => RunFilter(c.call.filter, k)
                   /\ Len(p) > Len(k) => ~RunFilter(c.call.filter, k)
                   /\ (/\ Len(p) <= Len(k)
                       /\ p # SubSeq(k, 1, Len(p))
                       /\ \A i \in 1..Len(p) : ToLowerASCII(p[i]) = ToLowerASCII(k[i]))
                      => ~RunFilter(c.call.filter, k)
    /\ \A l \in Issued :
           (/\ nCommits = 0
            /\ loadResults[l] # <<>>
            /\ loadResults[l][1].success)
           => KeysIn(loadResults[l][1].data) =
                  {k \in KeysOf(contents) : BeginsWith(k, loadReq[l].prefix)}

\* Over a store holding "A", "a", "ab" and "b", a successful
\* LoadContentByPrefix("A") returned the record "A" alone.
C22_Witness ==
    /\ nCommits = 0
    /\ contents = PrefixRecords
    /\ loadReq[1].api = "LoadContentByPrefix"
    /\ loadReq[1].prefix = KeyUpperA
    /\ loadResults[1] = <<[success |-> TRUE, data |-> << <<KeyUpperA, "0">> >>]>>

\* C23: over a store whose records do not change, the callback of a
\* successful LoadAllContentKeys is run with exactly the keys the store
\* holds, each once, and no values: the keys of the records a successful
\* LoadContentByPrefix with the empty prefix reports.
C23_AllKeysAreTheKeysOfEmptyPrefixLoad ==
    \A l \in Issued : \A i \in 1..Len(loadResults[l]) :
        LET out == loadResults[l][i]
            everything == StoreLoadEntries(
                StoreCall("LoadEntriesWithFilter", {}, {}, PrefixFilter(NoKey)), contents)
        IN  out.success =>
            /\ loadReq[l].api = "LoadAllContentKeys" =>
                   /\ NoDuplicates(out.data)
                   /\ Elements(out.data) \subseteq Elements(KeyOrder)
                   /\ Elements(out.data) = KeysOf(contents)
                   /\ Elements(out.data) = KeysOf(Elements(everything))
            /\ (loadReq[l].api = "LoadContentByPrefix" /\ loadReq[l].prefix = NoKey) =>
                   /\ KeysIn(out.data) = KeysOf(contents)
                   /\ out.data = [j \in 1..Len(everything) |->
                                     <<everything[j].key, everything[j].content_data>>]

\* Over a store holding "a", "ab" and "b", a successful LoadAllContentKeys
\* reported the three keys.
C23_Witness ==
    /\ contents = StoredRecords
    /\ loadReq[1].api = "LoadAllContentKeys"
    /\ loadResults[1] = <<[success |-> TRUE, data |-> <<KeyA, KeyAB, KeyB>>]>>

\* The operations of batch b not dispatched yet, as the object holds them
\* in this state: the mutation bound to the completion of the call in flight.
Queued(b) == {c.content_mutation : c \in InFlightOf(b)}

\* C24: the operations of a batch that were not dispatched yet are a suffix
\* of the batch as submitted: what was dispatched followed by what is still
\* held is the batch.  Each dispatch takes exactly the operation at the front
\* of what was held and leaves the rest as it was, so the operations are
\* never reordered, re-inserted or altered.
C24_QueueIsSuffixOfBatch ==
    /\ [](\A b \in Committed : \A q \in Queued(b) : sent[b] \o q = batch[b])
    /\ [][\A b \in Committed : batch'[b] = batch[b]]_vars
    /\ [][\A b \in BatchIds : Len(sent'[b]) # Len(sent[b]) =>
              LET held == IF nCommits' # nCommits THEN {batch'[b]} ELSE Queued(b)
                  left == {c.content_mutation : c \in calls' \ calls}
              IN  /\ Cardinality(held) = 1
                  /\ \A h \in held :
                         /\ h # <<>>
                         /\ sent'[b] = Append(sent[b], Head(h))
                         /\ left = {Tail(h)}
         ]_vars

\* The second operation of a batch of two different operations is in flight
\* and nothing is held any more.
C24_Witness ==
    /\ nCommits = 1
    /\ batch[1] = <<Upsert(KeyB, "2"), DeleteByPrefix(KeyA)>>
    /\ sent[1] = batch[1]
    /\ Queued(1) = {<<>>}

\* C25: the commit time of a batch is recorded exactly once for every
\* non-empty batch that succeeds, and never for an empty batch, a failing
\* batch or a batch still in progress.  It is recorded in the step in which
\* the completion of the batch's last operation is delivered with success:
\* nothing is left of the mutation, the callback has not been run yet, and it
\* is run with true in that step.
C25_CommitTimeOncePerSuccessfulBatch ==
    /\ [](\A b \in BatchIds :
              /\ Len(OperationCommitTime[b]) =
                     IF batch[b] # <<>> /\ results[b] = <<TRUE>> THEN 1 ELSE 0
              /\ \A i \in 1..Len(OperationCommitTime[b]) :
                     OperationCommitTime[b][i] = [left |-> <<>>, callbacks |-> 0])
    /\ [][\A b \in BatchIds : OperationCommitTime'[b] # OperationCommitTime[b] =>
              /\ outcome'[b] = Append(outcome[b], TRUE)
              /\ Len(outcome'[b]) = Len(batch[b])
              /\ AllTrue(outcome'[b])
              /\ results[b] = <<>>
              /\ results'[b] = <<TRUE>>
         ]_vars

\* A batch of two operations succeeded and its commit time was recorded
\* once; an empty batch succeeded too, and none was recorded for it.
C25_Witness ==
    /\ Len(batch[1]) = 2
    /\ results[1] = <<TRUE>>
    /\ Len(OperationCommitTime[1]) = 1
    /\ batch[2] = <<>>
    /\ results[2] = <<TRUE>>
    /\ OperationCommitTime[2] = <<>>

\* C26: the store call of an Upsert(k, v) is an update with exactly one entry
\* to save, (k, v), and nothing to delete; the store call of a Delete(k) is
\* an update with nothing to save and k alone to delete.  When such a call
\* succeeds only key k changes: afterwards k holds v (Upsert) or is absent
\* (Delete), and every other record is as it was, the records whose key
\* merely starts with k included.
C26_UpsertAndDeleteTouchOneKey ==
    /\ [](\A b \in Committed : \A c \in InFlightOf(b) :
              LET operation == sent[b][c.idx]
              IN  /\ operation.type = "CONTENT_UPSERT" =>
                         /\ c.call.kind = "UpdateEntries"
                         /\ c.call.save = {Record(operation.key, operation.value)}
                         /\ Cardinality(c.call.save) = 1
                         /\ c.call.remove = {}
                  /\ operation.type = "CONTENT_DELETE" =>
                         /\ c.call.kind = "UpdateEntries"
                         /\ c.call.save = {}
                         /\ c.call.remove = {operation.key})
    /\ [][\A b \in Committed : outcome'[b] = Append(outcome[b], TRUE) =>
              LET operation == sent[b][Len(outcome'[b])]
                  Others(db) == {r \in db : r.key # operation.key}
              IN  /\ operation.type = "CONTENT_UPSERT" =>
                         /\ Others(contents') = Others(contents)
                         /\ contents' \ Others(contents') =
                                {Record(operation.key, operation.value)}
                  /\ operation.type = "CONTENT_DELETE" =>
                         /\ Others(contents') = Others(contents)
                         /\ contents' = Others(contents')
         ]_vars

\* Over a store holding "a", "ab" and "b", one batch [Delete(a)] succeeded
\* and left "ab" and "b".
C26_Witness ==
    /\ nCommits = 1
    /\ batch[1] = <<Delete(KeyA)>>
    /\ snap = StoredRecords
    /\ results[1] = <<TRUE>>
    /\ contents = {Record(KeyAB, "0"), Record(KeyB, "0")}

\* C27: when CommitContentMutation calls overlap, each batch is dispatched in
\* its own order with at most one of its calls in flight, and the callback of
\* each batch reports the outcome of that batch: true exactly when every
\* operation of the batch was answered with success.  A failure delivered to
\* one batch leaves what was dispatched, what is in flight and what was
\* reported for every other batch as it was.
C27_OverlappingBatchesAreIndependent ==
    /\ [](\A b \in Committed :
              /\ IsPrefix(sent[b], batch[b])
              /\ Len(outcome[b]) <= Len(sent[b])
              /\ \A i \in 1..(Len(outcome[b]) - 1) : outcome[b][i]
              /\ Cardinality(InFlightOf(b)) <= 1
              /\ Len(results[b]) <= 1
              /\ (batch[b] # <<>> /\ results[b] # <<>>) =>
                     /\ InFlightOf(b) = {}
                     /\ results[b][1] =
                            (Len(outcome[b]) = Len(batch[b]) /\ AllTrue(outcome[b])))
    /\ [][\A b \in Committed : outcome'[b] = Append(outcome[b], FALSE) =>
              \A o \in Committed \ {b} :
                  /\ sent'[o] = sent[o]
                  /\ outcome'[o] = outcome[o]
                  /\ results'[o] = results[o]
                  /\ {c \in calls' : c.req = CommitReq(o)} = InFlightOf(o)
                  /\ PostedOf(CommitReq(o)) \subseteq posted'
         ]_vars

\* The second batch was submitted while the first was outstanding; the first
\* failed at its first operation, and the second went on to its second
\* operation and succeeded.
C27_Witness ==
    /\ nCommits = 2
    /\ ~alone
    /\ outcome[1] = <<FALSE>>
    /\ results[1] = <<FALSE>>
    /\ Len(batch[2]) = 2
    /\ outcome[2] = <<TRUE, TRUE>>
    /\ results[2] = <<TRUE>>

\* ------------------------------------------ a store that runs calls in order
\* The update call c arrived at the store before the load call d.
ArrivedBefore(c, d) == c.idx <= d.arrived[c.req.id]

\* Call c is the oldest call the store holds.
InOrder(c) ==
    IF c.handler = "OnOperationCommitted"
    THEN \A d \in calls : d.handler # "OnOperationCommitted" => ArrivedBefore(c, d)
    ELSE \A u \in calls : u.handler = "OnOperationCommitted" => ~ArrivedBefore(u, c)

\* A caller that commits one batch and loads once, at any moment, over a
\* store that completes its calls in the order it received them.
NextFifo ==
    \/ \E status \in InitStatuses : OnDatabaseInitialized(status)
    \/ \E m \in Mutations(StorePool, MaxLen) :
           IsInitialized /\ nCommits = 0 /\ CommitContentMutation(m)
    \/ \E t \in posted : RunPostedTask(t)
    \/ IsInitialized /\ LoadAllContentKeys
    \/ \E prefix \in LoadPrefixes : IsInitialized /\ LoadContentByPrefix(prefix)
    \/ \E c \in calls, success \in BOOLEAN : InOrder(c) /\ UpdateCompletes(c, success)
    \/ \E c \in calls, success \in BOOLEAN : InOrder(c) /\ LoadEntriesCompletes(c, success)
    \/ \E c \in calls, success \in BOOLEAN : InOrder(c) /\ LoadKeysCompletes(c, success)

SpecFifo == InitStored /\ [][NextFifo]_vars

\* The leading answers of TRUE in a sequence of answers.
RECURSIVE Succeeded(_)
Succeeded(answers) ==
    IF answers = <<>> \/ ~Head(answers) THEN 0 ELSE 1 + Succeeded(Tail(answers))

\* C28: a load called while a batch is outstanding is forwarded to the store
\* in that call, behind the update calls dispatched so far.  With a store
\* that runs its calls in arrival order, the load is answered when exactly the
\* n operations of the batch dispatched before it have been answered, and a
\* successful load reports the contents at submission transformed by those of
\* them that succeeded: a prefix of the batch, never a later operation.
C28_LoadSeesPrefixOfBatch ==
    /\ [][nLoads' # nLoads =>
              \E d \in calls' \ calls :
                  /\ d.req = LoadReqId(nLoads')
                  /\ d.arrived = [b \in BatchIds |-> Len(sent[b])]
                  /\ calls' = calls \cup {d}
         ]_vars
    /\ [][\A l \in Issued : \A d \in CallsOf(LoadReqId(l)) :
              (/\ Len(loadResults'[l]) = Len(loadResults[l]) + 1
               /\ loadResults'[l][Len(loadResults'[l])].success
               /\ nCommits >= 1
               /\ d.arrived[nCommits] >= 1)
              => LET b == nCommits
                     n == d.arrived[b]
                     db == ApplyAll(SubSeq(batch[b], 1, Succeeded(outcome[b])), snap)
                     content == IF loadReq[l].api = "LoadAllContentKeys"
                                THEN StoreLoadKeys(db) ELSE StoreLoadEntries(d.call, db)
                 IN  /\ Len(outcome[b]) = n
                     /\ contents = db
                     /\ loadResults'[l][Len(loadResults'[l])] =
                            LoadOutput(loadReq[l], [success |-> TRUE, content |-> content])
         ]_vars

\* Over an empty store the batch [Upsert(b), DeleteAll] succeeded, and the
\* LoadAllContentKeys called after its first operation was dispatched
\* reported the key "b".
C28_Witness ==
    /\ snap = {}
    /\ batch[1] = <<Upsert(KeyB, "2"), DeleteAll>>
    /\ results[1] = <<TRUE>>
    /\ contents = {}
    /\ loadReq[1].api = "LoadAllContentKeys"
    /\ loadResults[1] = <<[success |-> TRUE, data |-> <<KeyB>>]>>

\* The callbacks run so far for request r.
Reported(r) == IF r.api = "Commit" THEN results[r.id] ELSE loadResults[r.id]

\* C29: when the object is destroyed while a store call is outstanding, the
\* completion of that call is dropped: the request's callback has not been
\* run and is never run afterwards, nothing of the request is in flight or
\* posted, and for a batch no operation after the one in flight is ever
\* dispatched.
C29_DestroyedDropsCompletion ==
    /\ [](\A r \in dropped :
              /\ ~alive
              /\ Reported(r) = <<>>
              /\ CallsOf(r) = {}
              /\ PostedOf(r) = {}
              /\ r.api = "Commit" => Len(sent[r.id]) = Len(outcome[r.id]) + 1)
    /\ [][~alive =>
              /\ \A c \in calls \ calls' : c.req \in dropped'
              /\ calls' \subseteq calls
              /\ dropped \subseteq dropped'
              /\ UNCHANGED <<sent, entered, outcome, loadAnswer, loadResults, OperationCommitTime>>
              /\ \A b \in BatchIds :
                     results'[b] # results[b] => PostedOf(CommitReq(b)) # {}
         ]_vars

\* The destructor ran while the first operation of a batch of two was in
\* flight: the store did the operation, the completion was dropped, the
\* second operation was not dispatched and the callback has not been run.
C29_Witness ==
    /\ ~alive
    /\ CommitReq(1) \in dropped
    /\ batch[1] = <<Upsert(KeyA, "1"), DeleteAll>>
    /\ sent[1] = <<Upsert(KeyA, "1")>>
    /\ contents = {Record(KeyA, "1")}
    /\ outcome[1] = <<>>
    /\ results[1] = <<>>

\* C30: the callback of a CommitContentMutation is never run inside the call.
\* The call posts it, with true for an empty mutation and with false for a
\* mutation whose first operation is of an unsupported kind, and otherwise
\* puts one store call in flight; whenever the callback runs, it runs as a
\* posted task or in the step that delivers a store completion of its batch,
\* and a step that posts a callback does not run it.
C30_CallbackNeverRunInsideCommit ==
    /\ [][nCommits' # nCommits =>
              LET b == nCommits'
                  task(success) == [req |-> CommitReq(b), success |-> success]
              IN  /\ results' = results
                  /\ batch'[b] = <<>> =>
                         posted' = posted \cup {task(TRUE)} /\ calls' = calls
                  /\ (batch'[b] # <<>> /\ FirstUnsupported(batch'[b]) = 1) =>
                         posted' = posted \cup {task(FALSE)} /\ calls' = calls
                  /\ (batch'[b] # <<>> /\ FirstUnsupported(batch'[b]) # 1) =>
                         /\ posted' = posted
                         /\ Cardinality(NewCalls) = 1
                         /\ \A c \in NewCalls : c.req = CommitReq(b)
         ]_vars
    /\ [][\A b \in BatchIds :
              /\ results'[b] # results[b] =>
                     \/ PostedOf(CommitReq(b)) \ posted' # {}
                     \/ Len(outcome'[b]) = Len(outcome[b]) + 1
              /\ \A t \in posted' \ posted : t.req = CommitReq(b) => results'[b] = results[b]
         ]_vars

\* An empty mutation and a mutation of one unsupported operation were
\* committed: both callbacks are posted, neither has run.
C30_Witness ==
    /\ nCommits = 2
    /\ batch[1] = <<>>
    /\ batch[2] = <<Unsupported>>
    /\ posted = {[req |-> CommitReq(1), success |-> TRUE],
                 [req |-> CommitReq(2), success |-> FALSE]}
    /\ results[1] = <<>>
    /\ results[2] = <<>>

\* C31: a step in which LoadContent, LoadContentByPrefix or
\* LoadAllContentKeys is called, or in which the result of a load is delivered
\* to its handler and callback, leaves the store's records, database_status_
\* and every batch as they were: what was submitted, what was dispatched, the
\* update calls in flight with the operations they still hold, the callbacks
\* posted and the answers and reports so far.
C31_LoadsChangeNothingElse ==
    [][(nLoads' # nLoads \/ loadAnswer' # loadAnswer \/ loadResults' # loadResults) =>
           /\ contents' = contents
           /\ database_status_' = database_status_
           /\ initDelivered' = initDelivered
           /\ UNCHANGED commitHist
           /\ posted' = posted
           /\ \A b \in BatchIds :
                  {c \in calls' : c.req = CommitReq(b)} = InFlightOf(b)
      ]_vars

\* While the second operation of a batch was in flight and the database was
\* not open, a load was called and its result delivered.
C31_Witness ==
    /\ database_status_ = "kNotInitialized"
    /\ \E b \in Committed :
           /\ Len(batch[b]) = 2
           /\ Len(sent[b]) = 2
           /\ Queued(b) = {<<>>}
           /\ results[b] = <<>>
    /\ Len(loadResults[1]) = 1
    /\ contents # {}

\* ---------------------------------------- IdleActionWarningObserver: actions
\* What the caller of the power manager hands to the handlers.
Times == {0, 1}
Delays == {1, 2}
BatteryStates == {"CHARGING", "DISCHARGING", "FULL"}
PrefValues == [kPowerBatteryIdleAction : Actions, kPowerAcIdleAction : Actions]

\* The state after the constructor: no dialog, registered as an observer.
\* The initial value of on_battery_power_ is not set by the constructor.
InitObserver ==
    /\ database_status_ = "kNotInitialized"
    /\ initPending = TRUE
    /\ initDelivered = <<>>
    /\ alive = TRUE
    /\ contents \in InitialContents
    /\ calls = {}
    /\ posted = {}
    /\ nCommits = 0
    /\ batch = [b \in BatchIds |-> <<>>]
    /\ snap = {}
    /\ alone = TRUE
    /\ sent = [b \in BatchIds |-> <<>>]
    /\ entered = [b \in BatchIds |-> <<>>]
    /\ outcome = [b \in BatchIds |-> <<>>]
    /\ results = [b \in BatchIds |-> <<>>]
    /\ OperationCommitTime = [b \in BatchIds |-> <<>>]
    /\ nLoads = 0
    /\ loadReq = [l \in LoadIds |-> NoLoad]
    /\ loadAnswer = [l \in LoadIds |-> <<>>]
    /\ loadResults = [l \in LoadIds |-> <<>>]
    /\ dropped = {}
    /\ observing = TRUE
    /\ warning_dialog_ = NULL
    /\ on_battery_power_ \in BOOLEAN
    /\ prefs \in PrefValues
    /\ demo_mode \in BOOLEAN
    /\ views = [d \in DialogIds |-> NoView]
    /\ handled = NothingHandled

\* GetIdleAction(on_battery_power).
GetIdleAction(on_battery_power) ==
    IF on_battery_power THEN prefs.kPowerBatteryIdleAction ELSE prefs.kPowerAcIdleAction

\* ReportMetricsForDemoMode(event): the samples that reach the histogram.
ReportMetricsForDemoMode(event) == IF demo_mode THEN <<event>> ELSE <<>>

\* The views that are open.
OpenViews == {d \in DialogIds : views[d].open}

\* new IdleActionWarningDialogView(idle_action_time): a view that was not
\* open opens with the deadline.
NewView == CHOOSE d \in DialogIds \ OpenViews : TRUE

\* HideDialogIfPresent reporting kCanceled whether or not there is a dialog.
HideDialogIfPresent_AlwaysReports(event) ==
    /\ views' = IF warning_dialog_ # NULL
                THEN [views EXCEPT ![warning_dialog_] = NoView] ELSE views
    /\ handled' = Handled(event, {}, {},
                          IF warning_dialog_ # NULL THEN {warning_dialog_} ELSE {},
                          <<"kCanceled">>, ReportMetricsForDemoMode("kCanceled"))
    /\ warning_dialog_' = NULL

\* HideDialogIfPresent(), called by the handler of event.
HideDialogIfPresent(event) ==
    /\ IF warning_dialog_ # NULL
       THEN /\ views' = [views EXCEPT ![warning_dialog_] = NoView]
            /\ handled' = Handled(event, {}, {}, {warning_dialog_},
                                  <<"kCanceled">>, ReportMetricsForDemoMode("kCanceled"))
       ELSE /\ views' = views
            /\ handled' = Handled(event, {}, {}, {}, <<>>, <<>>)
    /\ warning_dialog_' = NULL

\* IdleActionImminent returning at once when the idle action is neither to
\* stop the session nor to shut down, leaving a dialog as it is.
IdleActionImminent_KeepsDialog(now, time_until_idle_action) ==
    /\ observing
    /\ LET idle_action == GetIdleAction(on_battery_power_)
           idle_action_time == now + time_until_idle_action
       IN  IF idle_action # ACTION_STOP_SESSION /\ idle_action # ACTION_SHUT_DOWN
           THEN /\ handled' = Handled(<<"IdleActionImminent", now, time_until_idle_action>>, {}, {}, {}, <<>>, <<>>)
                /\ UNCHANGED <<views, warning_dialog_>>
           ELSE IF warning_dialog_ # NULL
           THEN /\ views' = [views EXCEPT
                       ![warning_dialog_].idle_action_time = idle_action_time]
                /\ handled' = Handled(<<"IdleActionImminent", now, time_until_idle_action>>, {}, {warning_dialog_}, {},
                                      <<>>, <<>>)
                /\ UNCHANGED warning_dialog_
           ELSE /\ OpenViews # DialogIds
                /\ views' = [views EXCEPT ![NewView] =
                       [open |-> TRUE, idle_action_time |-> idle_action_time]]
                /\ warning_dialog_' = NewView
                /\ handled' = Handled(<<"IdleActionImminent", now, time_until_idle_action>>, {NewView}, {}, {},
                                      <<"kShown">>, ReportMetricsForDemoMode("kShown"))
    /\ UNCHANGED <<feedVars, observing, on_battery_power_, prefs, demo_mode>>

\* IdleActionImminent creating a dialog whether or not it points to one.
IdleActionImminent_AlwaysCreates(now, time_until_idle_action) ==
    /\ observing
    /\ LET idle_action == GetIdleAction(on_battery_power_)
           idle_action_time == now + time_until_idle_action
       IN  IF idle_action # ACTION_STOP_SESSION /\ idle_action # ACTION_SHUT_DOWN
           THEN HideDialogIfPresent(<<"IdleActionImminent", now, time_until_idle_action>>)
           ELSE /\ OpenViews # DialogIds
                /\ views' = [views EXCEPT ![NewView] =
                       [open |-> TRUE, idle_action_time |-> idle_action_time]]
                /\ warning_dialog_' = NewView
                /\ handled' = Handled(<<"IdleActionImminent", now, time_until_idle_action>>, {NewView}, {}, {},
                                      <<"kShown">>, ReportMetricsForDemoMode("kShown"))
    /\ UNCHANGED <<feedVars, observing, on_battery_power_, prefs, demo_mode>>

\* IdleActionImminent(time_until_idle_action), called at time now.
IdleActionImminent(now, time_until_idle_action) ==
    /\ observing
    /\ LET idle_action == GetIdleAction(on_battery_power_)
           idle_action_time == now + time_until_idle_action
       IN  IF idle_action # ACTION_STOP_SESSION /\ idle_action # ACTION_SHUT_DOWN
           THEN HideDialogIfPresent(<<"IdleActionImminent", now, time_until_idle_action>>)
           ELSE IF warning_dialog_ # NULL
           THEN /\ views' = [views EXCEPT
                       ![warning_dialog_].idle_action_time = idle_action_time]
                /\ handled' = Handled(<<"IdleActionImminent", now, time_until_idle_action>>, {}, {warning_dialog_}, {},
                                      <<>>, <<>>)
                /\ UNCHANGED warning_dialog_
           ELSE /\ OpenViews # DialogIds
                /\ views' = [views EXCEPT ![NewView] =
                       [open |-> TRUE, idle_action_time |-> idle_action_time]]
                /\ warning_dialog_' = NewView
                /\ handled' = Handled(<<"IdleActionImminent", now, time_until_idle_action>>, {NewView}, {}, {},
                                      <<"kShown">>, ReportMetricsForDemoMode("kShown"))
    /\ UNCHANGED <<feedVars, observing, on_battery_power_, prefs, demo_mode>>

\* IdleActionDeferred().
IdleActionDeferred ==
    /\ observing
    /\ HideDialogIfPresent(<<"IdleActionDeferred">>)
    /\ UNCHANGED <<feedVars, observing, on_battery_power_, prefs, demo_mode>>

\* PowerChanged closing the dialog when the power source changes.
PowerChanged_HidesDialog(battery_state) ==
    /\ observing
    /\ on_battery_power_' = (battery_state = "DISCHARGING")
    /\ IF on_battery_power_' # on_battery_power_
       THEN HideDialogIfPresent(<<"PowerChanged", battery_state>>)
       ELSE /\ handled' = Handled(<<"PowerChanged", battery_state>>, {}, {}, {}, <<>>, <<>>)
            /\ UNCHANGED <<warning_dialog_, views>>
    /\ UNCHANGED <<feedVars, observing, prefs, demo_mode>>

\* PowerChanged(proto), with the battery state of proto.
PowerChanged(battery_state) ==
    /\ observing
    /\ on_battery_power_' = (battery_state = "DISCHARGING")
    /\ handled' = Handled(<<"PowerChanged", battery_state>>, {}, {}, {}, <<>>, <<>>)
    /\ UNCHANGED <<feedVars, observing, warning_dialog_, prefs, demo_mode, views>>

\* The user's or the policy's idle actions change.
PrefsChanged(values) ==
    /\ observing
    /\ values # prefs
    /\ prefs' = values
    /\ handled' = Handled(<<"PrefsChanged">>, {}, {}, {}, <<>>, <<>>)
    /\ UNCHANGED <<feedVars, observing, warning_dialog_, on_battery_power_, demo_mode, views>>

\* ~IdleActionWarningObserver(): unregisters and closes the dialog.
DestroyObserver ==
    /\ observing
    /\ observing' = FALSE
    /\ views' = IF warning_dialog_ # NULL
                THEN [views EXCEPT ![warning_dialog_] = NoView] ELSE views
    /\ handled' = Handled(<<"~IdleActionWarningObserver">>, {}, {},
                          IF warning_dialog_ # NULL THEN {warning_dialog_} ELSE {},
                          <<>>, <<>>)
    /\ UNCHANGED <<feedVars, warning_dialog_, on_battery_power_, prefs, demo_mode>>

NextObserver ==
    \/ \E now \in Times, time_until_idle_action \in Delays :
           IdleActionImminent(now, time_until_idle_action)
    \/ IdleActionDeferred
    \/ \E battery_state \in BatteryStates : PowerChanged(battery_state)
    \/ \E values \in PrefValues : PrefsChanged(values)
    \/ DestroyObserver

\* The observer under any sequence of power manager events.
SpecObserver == InitObserver /\ [][NextObserver]_vars

\* The latest step was the handler of the named event.
After(name) == handled.event[1] = name
WarningActions == {ACTION_STOP_SESSION, ACTION_SHUT_DOWN}

\* C32: immediately after an IdleActionImminent a warning dialog is open
\* exactly when the idle action configured for the power source of the latest
\* PowerChanged is to stop the session or to shut down; for any other idle
\* action the handler closed the dialog that was open, created none, and the
\* observer points to none.
C32_DialogIffWarningAction ==
    /\ [](After("IdleActionImminent") =>
              LET idle_action == GetIdleAction(on_battery_power_)
              IN  /\ OpenViews # {} <=> idle_action \in WarningActions
                  /\ warning_dialog_ # NULL <=> idle_action \in WarningActions
                  /\ idle_action \notin WarningActions =>
                         /\ handled.created = {}
                         /\ handled.updated = {})
    /\ [][handled'.event[1] = "IdleActionImminent" =>
              /\ GetIdleAction(on_battery_power_) \notin WarningActions =>
                     handled'.closed = OpenViews
              /\ GetIdleAction(on_battery_power_) \in WarningActions =>
                     handled'.closed = {}
         ]_vars

\* On AC power with the AC idle action suspend, after the battery idle action
\* had opened the dialog: an IdleActionImminent closed it and none is open.
C32_Witness ==
    /\ After("IdleActionImminent")
    /\ ~on_battery_power_
    /\ prefs.kPowerAcIdleAction = ACTION_SUSPEND
    /\ prefs.kPowerBatteryIdleAction = ACTION_SHUT_DOWN
    /\ handled.closed # {}
    /\ OpenViews = {}

\* C33: while the observer is registered, at most one warning dialog is open,
\* and it is the one warning_dialog_ points to.  An IdleActionImminent that
\* finds a dialog (and an idle action that warns) creates none: it sets the
\* deadline of that dialog to the time of the call plus the time until the
\* idle action, and passes no event to ReportMetricsForDemoMode.  kShown is
\* passed only by a handler that created a dialog, once, and reaches the
\* histogram only then.
C33_AtMostOneDialog ==
    /\ [](observing =>
              /\ Cardinality(OpenViews) <= 1
              /\ OpenViews = IF warning_dialog_ = NULL THEN {} ELSE {warning_dialog_})
    /\ []((\E i \in 1..Len(handled.reported) : handled.reported[i] = "kShown")
              => /\ Cardinality(handled.created) = 1
                 /\ handled.reported = <<"kShown">>
                 /\ handled.updated = {})
    /\ []((\E i \in 1..Len(handled.recorded) : handled.recorded[i] = "kShown")
              => Cardinality(handled.created) = 1)
    /\ [][(/\ handled'.event[1] = "IdleActionImminent"
           /\ warning_dialog_ # NULL
           /\ GetIdleAction(on_battery_power_) \in WarningActions)
          => /\ warning_dialog_' = warning_dialog_
             /\ OpenViews' = OpenViews
             /\ handled'.created = {}
             /\ handled'.updated = {warning_dialog_}
             /\ handled'.reported = <<>>
             /\ handled'.recorded = <<>>
             /\ views'[warning_dialog_].idle_action_time =
                    handled'.event[2] + handled'.event[3]
         ]_vars

\* In demo mode, an IdleActionImminent that found the dialog open set its
\* deadline to 3 and reported nothing.
C33_Witness ==
    /\ demo_mode
    /\ After("IdleActionImminent")
    /\ handled.updated = {warning_dialog_}
    /\ handled.reported = <<>>
    /\ OpenViews = {warning_dialog_}
    /\ views[warning_dialog_].idle_action_time = 3

\* C34: immediately after an IdleActionDeferred no warning dialog is open and
\* the observer points to none.  The handler closes a dialog, and passes
\* kCanceled to ReportMetricsForDemoMode, exactly when a dialog was open, so
\* an IdleActionDeferred that follows another closes nothing and reports
\* nothing.  (The sample reaches the histogram when, besides, the device is
\* in demo mode.)  PowerChanged creates, updates and closes no dialog and
\* reports nothing.
C34_DeferredClosesAndReportsOnce ==
    /\ [](After("IdleActionDeferred") =>
              /\ OpenViews = {}
              /\ warning_dialog_ = NULL
              /\ handled.created = {}
              /\ handled.updated = {}
              /\ handled.reported = IF handled.closed # {} THEN <<"kCanceled">> ELSE <<>>
              /\ handled.recorded = IF demo_mode THEN handled.reported ELSE <<>>)
    /\ [][handled'.event[1] = "IdleActionDeferred" =>
              /\ handled'.closed = OpenViews
              /\ handled'.reported = IF OpenViews # {} THEN <<"kCanceled">> ELSE <<>>
              /\ After("IdleActionDeferred") =>
                     handled'.closed = {} /\ handled'.reported = <<>>
         ]_vars
    /\ [][handled'.event[1] = "PowerChanged" =>
              /\ views' = views
              /\ warning_dialog_' = warning_dialog_
              /\ handled'.created = {}
              /\ handled'.updated = {}
              /\ handled'.closed = {}
              /\ handled'.reported = <<>>
              /\ handled'.recorded = <<>>
         ]_vars

\* In demo mode an IdleActionDeferred closed the open dialog and the
\* kCanceled sample was recorded.
C34_Witness ==
    /\ demo_mode
    /\ After("IdleActionDeferred")
    /\ Cardinality(handled.closed) = 1
    /\ handled.recorded = <<"kCanceled">>
    /\ OpenViews = {}


\* ------------------------------------------- the assertion of the pipeline
\* C35: PerformNextOperation is never entered with an empty mutation.  The
\* i-th time it is entered for a batch, from CommitContentMutation (i = 1) or
\* from a successful completion, the mutation holds what is left of the
\* batch after the i - 1 operations taken before, which is at least one
\* operation; for an empty batch it is not entered at all.
C35_NeverEnteredEmpty ==
    \A b \in BatchIds :
        /\ Len(entered[b]) <= Len(batch[b])
        /\ \A i \in 1..Len(entered[b]) :
               /\ entered[b][i] = Len(batch[b]) - i + 1
               /\ entered[b][i] >= 1
        /\ Len(sent[b]) <= Len(entered[b])

\* A batch of two operations entered PerformNextOperation from
\* CommitContentMutation with two and from the successful completion of its
\* first operation with one, and an empty batch was answered without
\* entering it.
C35_Witness ==
    \E b, e \in Committed :
        /\ Len(batch[b]) = 2
        /\ entered[b] = <<2, 1>>
        /\ outcome[b] = <<TRUE, TRUE>>
        /\ results[b] = <<TRUE>>
        /\ batch[e] = <<>>
        /\ entered[e] = <<>>
        /\ results[e] = <<TRUE>>

====
